---- MODULE Spec2Model ----
(***************************************************************************)
(* Verification model of the SMTP verification engine of Email-Validator:  *)
(*   - the in-memory throttle store (InMemoryThrottleStore), used by       *)
(*     callers that acquire, record and release, and called directly,      *)
(*   - the Redis-backed throttle store (RedisThrottleStore and the         *)
(*     acquireThrottleSlot Lua script),                                    *)
(*   - the orchestrator validateSmtp with its handshake state machine,     *)
(*   - the handshake alone, on the EHLO response and the final RCPT line,  *)
(*   - the two throttle stores driven by the same calls,                   *)
(*   - the cache and the throttle proxy across the swap to Redis, and      *)
(*     validateMx on that cache,                                           *)
(*   - one validateSmtpSingle with its phase and overall timers.           *)
(* Each part has its own specification (SpecMem, SpecMemLive and           *)
(* SpecStore, SpecRedis, SpecSmtp and SpecSmtpLive, SpecRcpt, SpecPair,    *)
(* SpecSwap, SpecCache and SpecMx, SpecSingle); the variables of the other *)
(* parts stay at their initial values.  Times are milliseconds, as in the  *)
(* code; the clock takes its values from a finite, increasing set of       *)
(* instants.                                                               *)
(***************************************************************************)
EXTENDS Integers, Sequences, FiniteSets, TLC

VARIABLES
  now,                \* Date.now(): the wall clock, in ms
  config,             \* the ThrottleConfig of the run
  \* ---- InMemoryThrottleStore
  mxStates,           \* Map<string, MxState>: a function from the known hosts
  globalConcurrency,  \* InMemoryThrottleStore.globalConcurrency
  pc,                 \* per caller: where it is in acquire / hold / release
  chost,              \* per caller: the host of its current acquireSlot call
  startTime,          \* per caller: acquireSlot's startTime
  wakeAt,             \* per caller: when its sleep(waitTime) is over
  penalties,          \* number of severe failures recorded so far
  \* ---- the Redis store (server side)
  rGlobal,            \* key throttle:global:concurrency
  rMx,                \* per host: key throttle:{host}:concurrency
  rPenalty,           \* per host: key throttle:{host}:penalty
  rLast,              \* per host: key throttle:{host}:lastAttempt
  rState,             \* per host: key throttle:{host}:state (the MxState JSON)
  \* ---- RedisThrottleStore (one per process)
  rpc,                \* per process: where its acquireSlot / attempt is
  rhost,              \* per process: the host of its current call
  rstart,             \* per process: acquireSlot's startTime
  rnow,               \* per process: the `now` it read at the top of the loop
  rsnap,              \* per process: the state its getFromRedis returned
  rwake,              \* per process: when its sleep is over
  rceil,              \* per process: the maxMxConcurrency it passed to the script
  bgRec,              \* per process: its recordSuccess/recordFailure in flight
  bgRel,              \* per process: its releaseSlot in flight
  rLastGrant,         \* history, per host: instant of the last grant (0: none)
  rCalls,             \* number of acquireSlot calls made so far
  \* ---- performSmtpHandshake
  step,               \* 0 = banner, 1 = ehlo, 3 = mail, 4 = rcpt
  currentTimeout,     \* whether a phase timer is set
  ehloCapabilities,   \* the capabilities of the EHLO response
  \* ---- validateSmtp (one invocation)
  orch,               \* the locals of validateSmtp and of the calls it makes
  mxToTry,            \* the exchangers to try, in order
  scfg,               \* the SmtpValidationConfig of the invocation
  slotHeld,           \* whether the attempt holds a throttle slot
  lastRecord,         \* what the last attempt recorded with the throttle
  probeOutcomes,      \* history: what the catch-all probes came to
  rcptRealSent,       \* history: RCPT TO was sent for the real address
  firstDefinitive,    \* history: the first definitive result of the sweep
  contactedAfter,     \* history: an exchanger was contacted after it
  seen,               \* history: acquire timeouts and closes at the RCPT step
  releaseCalls,       \* history: the releaseSlot calls of the last step
  visited,            \* history: the exchangers contacted, loop by loop
  \* ---- InMemoryThrottleStore called directly
  severeRun,          \* history, per host: the severe failures recorded in a
                      \* row on its state since it was fresh (0: none)
  penaltyEnds,        \* history, per host: the latest end of a penalty window
                      \* a recordFailure has set (0: none)
  \* ---- performSmtpHandshake alone
  events,             \* the 'data' events to come, each a chunk of lines
  hsOutcome,          \* what the handshake came to
  sent,               \* the final RCPT line the server sends
  \* ---- the Redis connection and the hot swaps (redis.ts, throttleState.ts,
  \*      cache.ts)
  redisClient,        \* the connection: off (Redis disabled), connecting,
                      \* ready, down, or absent (dropped by disconnect())
  readyHandlers,      \* whether the once('ready') handlers are registered
  throttleStateContainer, \* throttleStateContainer.currentBackend
  cacheContainer,     \* cacheContainer.currentBackend (and its wrapper)
  cleanupInterval,    \* when the sweep timer is next due (0: no timer)
  importer,           \* a module that calls through the exported throttleState
  \* ---- the cache entry of one key
  memoryCache,        \* in the InMemoryCache the process starts with
  fallback,           \* in the fallback InMemoryCache of the RedisCache
  redisKey,           \* in Redis
  cacheCall,          \* the RedisCache call awaiting its reply
  lastSet,            \* history: the last set the RedisCache completed
  lastGet,            \* history: the last get the RedisCache completed
  \* ---- validateMx (one call at a time)
  mxCall,             \* the locals of the call
  lastMx,             \* history: the call before, and how this one went
  \* ---- validateSmtpSingle with its timers (one attempt)
  single              \* the locals of the attempt, its deadlines and what was
                      \* done with its socket

memVars == <<penalties, mxStates, globalConcurrency, pc, chost, startTime, wakeAt>>

storeVars == <<rGlobal, rMx, rPenalty, rLast, rState>>
procVars == <<rpc, rhost, rstart, rnow, rsnap, rwake, rceil>>
bgVars == <<bgRec, bgRel>>
histVars == <<rLastGrant, rCalls>>
redisVars == <<storeVars, procVars, bgVars, histVars>>

hsVars == <<step, currentTimeout, ehloCapabilities>>
orchVars == <<orch, mxToTry, scfg, slotHeld, lastRecord, probeOutcomes,
              rcptRealSent, firstDefinitive, contactedAfter, seen,
              releaseCalls, visited>>
rcptVars == <<events, hsOutcome, sent>>

storeHist == <<severeRun, penaltyEnds>>
swapVars == <<redisClient, readyHandlers, throttleStateContainer,
              cacheContainer, cleanupInterval, importer>>
cacheVars == <<memoryCache, fallback, redisKey, cacheCall, lastSet, lastGet>>
mxVars == <<mxCall, lastMx>>
hotVars == <<swapVars, cacheVars, mxVars>>

vars == <<now, config, memVars, redisVars, hsVars, orchVars, rcptVars,
          storeHist, hotVars, single>>

\* What the steps of the in-memory store leave alone
memFrame == <<config, redisVars, hsVars, orchVars, rcptVars, storeHist,
              hotVars, single>>
\* What the steps of the Redis store leave alone
redisFrame == <<config, memVars, hsVars, orchVars, rcptVars, storeHist,
                hotVars, single>>
\* What the steps of validateSmtp leave alone
smtpFrame == <<now, config, memVars, redisVars, rcptVars, storeHist,
               hotVars, single>>
\* What the steps of the handshake alone leave alone
rcptFrame == <<now, config, memVars, redisVars, orchVars, storeHist,
               hotVars, single>>

----------------------------------------------------------------------------
(* Bounds of the model *)

NumCallers == 2
MaxFailures == 4
MaxSuccessCount == 1
MaxPenalties == 1

Callers == 1..NumCallers
Hosts == {"mx1", "mx2"}
NoHost == "none"

\* The instants the clock takes.  Date.now() is positive; the gaps cover the
\* minimum interval (2000), every sleep of acquireSlot (at most 2000), and
\* the wait limit of acquireSlot (60000).
Instants == {1000, 3000, 70000}

----------------------------------------------------------------------------
(* Configurations the callers pass (ThrottleConfig); one run uses one of
   them in every call. *)

Configs ==
  { [maxGlobalConcurrency |-> 1, maxMxConcurrency |-> 2, perDomainMinIntervalMs |-> 2000],
    [maxGlobalConcurrency |-> 2, maxMxConcurrency |-> 2, perDomainMinIntervalMs |-> 0] }

(* Constants of the throttle code *)

maxWaitTime == 60000
StartCeiling == 2
HardCeiling == 5
SuccessThreshold == 10
FailureThreshold == 3
PenaltyBaseMs == 5000
PenaltyCapMs == 300000
PenaltySleepCapMs == 1000
LimitSleepMs == 500

Min(a, b) == IF a <= b THEN a ELSE b
Max(a, b) == IF a >= b THEN a ELSE b

RECURSIVE Pow2(_)
Pow2(n) == IF n = 0 THEN 1 ELSE 2 * Pow2(n - 1)

----------------------------------------------------------------------------
(* InMemoryThrottleStore *)

\* getOrCreateState: the state a host gets when first seen
NewMxStateUncapped(maxMx) ==
  [concurrency |-> 0, maxConcurrency |-> maxMx,
   failures |-> 0, successCount |-> 0, penaltyUntil |-> 0, lastAttemptAt |-> 0]
NewMxState(maxMx) ==
  [concurrency |-> 0, maxConcurrency |-> Min(maxMx, StartCeiling),
   failures |-> 0, successCount |-> 0, penaltyUntil |-> 0, lastAttemptAt |-> 0]

getOrCreateState(h, maxMx) ==
  IF h \in DOMAIN mxStates THEN mxStates ELSE mxStates @@ (h :> NewMxState(maxMx))

\* The four gates of acquireSlot's loop, in the order the code tests them
PenaltyActive(st, t) == st.penaltyUntil # 0 /\ t < st.penaltyUntil

IntervalNotMet(st, t, minInterval) ==
  st.lastAttemptAt # 0 /\ t - st.lastAttemptAt < minInterval

GlobalLimitReachedOffByOne(g, maxGlobal) == g > maxGlobal
GlobalLimitReached(g, maxGlobal) == g >= maxGlobal

MxLimitReachedOffByOne(st) == st.concurrency > st.maxConcurrency
MxLimitReached(st) == st.concurrency >= st.maxConcurrency

\* await this.sleep(ms) inside caller c's acquireSlot(h, ...) begun at start
Sleep(c, h, start, ms) ==
  /\ pc' = [pc EXCEPT ![c] = "sleeping"]
  /\ chost' = [chost EXCEPT ![c] = h]
  /\ startTime' = [startTime EXCEPT ![c] = start]
  /\ wakeAt' = [wakeAt EXCEPT ![c] = now + ms]

\* The test at the top of acquireSlot's loop: the call has waited too long
WaitNeverExpires(t, start) == FALSE
WaitExpired(t, start) == t - start > maxWaitTime

\* One pass of the while (true) loop of acquireSlot, from its top to the
\* next await, to the throw or to the break; ms is the map after
\* getOrCreateState.  After the call has ended its locals are dropped.
LoopIteration(c, h, ms, start) ==
  LET st == ms[h] IN
  IF WaitExpired(now, start) THEN
       \* throw new Error(`Timeout waiting for slot ...`)
       /\ pc' = [pc EXCEPT ![c] = "idle"]
       /\ chost' = [chost EXCEPT ![c] = NoHost]
       /\ startTime' = [startTime EXCEPT ![c] = 0]
       /\ wakeAt' = [wakeAt EXCEPT ![c] = 0]
       /\ mxStates' = ms
       /\ UNCHANGED globalConcurrency
  ELSE IF PenaltyActive(st, now) THEN
       /\ Sleep(c, h, start, Min(PenaltySleepCapMs, st.penaltyUntil - now))
       /\ mxStates' = ms
       /\ UNCHANGED globalConcurrency
  ELSE IF IntervalNotMet(st, now, config.perDomainMinIntervalMs) THEN
       /\ Sleep(c, h, start, config.perDomainMinIntervalMs - (now - st.lastAttemptAt))
       /\ mxStates' = ms
       /\ UNCHANGED globalConcurrency
  ELSE IF GlobalLimitReached(globalConcurrency, config.maxGlobalConcurrency) THEN
       /\ Sleep(c, h, start, LimitSleepMs)
       /\ mxStates' = ms
       /\ UNCHANGED globalConcurrency
  ELSE IF MxLimitReached(st) THEN
       /\ Sleep(c, h, start, LimitSleepMs)
       /\ mxStates' = ms
       /\ UNCHANGED globalConcurrency
  ELSE \* acquire the slot
       /\ mxStates' = [ms EXCEPT ![h] =
             [st EXCEPT !.concurrency = @ + 1, !.lastAttemptAt = now]]
       /\ globalConcurrency' = globalConcurrency + 1
       /\ pc' = [pc EXCEPT ![c] = "holding"]
       /\ chost' = [chost EXCEPT ![c] = h]
       /\ startTime' = [startTime EXCEPT ![c] = 0]
       /\ wakeAt' = [wakeAt EXCEPT ![c] = 0]

\* acquireSlot(mxHost, config) up to its first await (or its return)
AcquireSlot(c, h) ==
  /\ pc[c] = "idle"
  /\ UNCHANGED penalties
  /\ LoopIteration(c, h, getOrCreateState(h, config.maxMxConcurrency), now)
  /\ UNCHANGED <<now, memFrame>>

\* acquireSlot resumed after sleep(waitTime): the next pass of the loop
AcquireResume(c) ==
  /\ pc[c] = "sleeping"
  /\ UNCHANGED penalties
  /\ wakeAt[c] = 0
  /\ LoopIteration(c, chost[c], mxStates, startTime[c])
  /\ UNCHANGED <<now, memFrame>>

\* releaseSlot(mxHost), by a caller that holds a slot of the host
ReleasedStateUnclamped(st) == [st EXCEPT !.concurrency = @ - 1]
releasedState(st) == [st EXCEPT !.concurrency = Max(0, @ - 1)]

ReleaseSlot(c) ==
  /\ pc[c] \in {"holding", "recorded"}
  /\ IF chost[c] \in DOMAIN mxStates
     THEN /\ mxStates' = [mxStates EXCEPT ![chost[c]] = releasedState(@)]
          /\ globalConcurrency' = Max(0, globalConcurrency - 1)
     ELSE UNCHANGED <<mxStates, globalConcurrency>>
  /\ pc' = [pc EXCEPT ![c] = "idle"]
  /\ chost' = [chost EXCEPT ![c] = NoHost]
  /\ UNCHANGED <<now, startTime, wakeAt, penalties, memFrame>>

\* recordSuccess(mxHost): the state it leaves
successState(st) ==
  LET s1 == [st EXCEPT !.successCount = @ + 1, !.failures = Max(0, @ - 1)] IN
  IF s1.successCount > SuccessThreshold /\ s1.maxConcurrency < HardCeiling
  THEN [s1 EXCEPT !.maxConcurrency = Min(@ + 1, HardCeiling)]
  ELSE s1

\* The penalty of a severe failure that brings the count to `failures`
PenaltyMs(failures) == Min(PenaltyCapMs, PenaltyBaseMs * Pow2(failures))

\* recordFailure(mxHost, shouldPenalize): the state it leaves, at instant t
FailureStateLateDecrease(st, shouldPenalize, t) ==
  LET s1 == [st EXCEPT !.failures = @ + 1, !.successCount = 0]
      s2 == IF shouldPenalize
            THEN [s1 EXCEPT !.penaltyUntil =
                     t + PenaltyMs(s1.failures)]
            ELSE s1
  IN IF s2.failures > FailureThreshold + 1 /\ s2.maxConcurrency > 1
     THEN [s2 EXCEPT !.maxConcurrency = Max(1, @ - 1)]
     ELSE s2
failureState(st, shouldPenalize, t) ==
  LET s1 == [st EXCEPT !.failures = @ + 1, !.successCount = 0]
      s2 == IF shouldPenalize
            THEN [s1 EXCEPT !.penaltyUntil =
                     t + PenaltyMs(s1.failures)]
            ELSE s1
  IN IF s2.failures > FailureThreshold /\ s2.maxConcurrency > 1
     THEN [s2 EXCEPT !.maxConcurrency = Max(1, @ - 1)]
     ELSE s2

\* The attempt that holds the slot reports its outcome (validateSmtpSingle
\* calls one of the two before releaseSlot).
RecordSuccess(c) ==
  /\ pc[c] = "holding"
  /\ chost[c] \in DOMAIN mxStates
  /\ mxStates[chost[c]].successCount < MaxSuccessCount
  /\ mxStates' = [mxStates EXCEPT ![chost[c]] = successState(@)]
  /\ pc' = [pc EXCEPT ![c] = "recorded"]
  /\ UNCHANGED <<now, globalConcurrency, chost, startTime, wakeAt, penalties, memFrame>>

RecordFailure(c, shouldPenalize) ==
  /\ pc[c] = "holding"
  /\ chost[c] \in DOMAIN mxStates
  /\ mxStates[chost[c]].failures < MaxFailures
  /\ shouldPenalize => penalties < MaxPenalties
  /\ penalties' = IF shouldPenalize THEN penalties + 1 ELSE penalties
  /\ mxStates' = [mxStates EXCEPT ![chost[c]] = failureState(@, shouldPenalize, now)]
  /\ pc' = [pc EXCEPT ![c] = "recorded"]
  /\ UNCHANGED <<now, globalConcurrency, chost, startTime, wakeAt, memFrame>>

\* Time passes: the clock moves to a later instant.  A sleep whose timer
\* has fired leaves its continuation ready to run (wakeAt = 0).
Advance ==
  /\ \E t \in Instants :
        /\ t > now
        /\ now' = t
        /\ wakeAt' = [c \in Callers |-> IF wakeAt[c] <= t THEN 0 ELSE wakeAt[c]]
  /\ UNCHANGED <<mxStates, globalConcurrency, pc, chost, startTime, penalties, memFrame>>

\* The Redis part at rest: no key exists, every process is idle
NumProcs == 2
MaxCalls == 5
Procs == 1..NumProcs
RHosts == {"mx1"}
RInstants == {1000, 70000}

\* An MxState as the Redis store keeps it; the fields the store writes and
\* never reads back (host, totals, lastAttemptAt, penaltyUntil) are left out
NoState ==
  [present |-> FALSE, concurrency |-> 0, maxConcurrency |-> 0, failures |-> 0,
   successCount |-> 0]
NoKey == [v |-> 0, exp |-> -1]
NoStateKey == [v |-> NoState, exp |-> -1]

NoRec ==
  [st |-> "none", host |-> NoHost, kind |-> "none", state |-> NoState,
   penaltyUntil |-> 0]
NoRel == [st |-> "none", host |-> NoHost, state |-> NoState]

RedisIdle ==
  /\ rGlobal = NoKey
  /\ rMx = [h \in RHosts |-> NoKey]
  /\ rPenalty = [h \in RHosts |-> NoKey]
  /\ rLast = [h \in RHosts |-> NoKey]
  /\ rState = [h \in RHosts |-> NoStateKey]
  /\ rpc = [p \in Procs |-> "idle"]
  /\ rhost = [p \in Procs |-> NoHost]
  /\ rstart = [p \in Procs |-> 0]
  /\ rnow = [p \in Procs |-> 0]
  /\ rsnap = [p \in Procs |-> NoState]
  /\ rwake = [p \in Procs |-> 0]
  /\ rceil = [p \in Procs |-> 0]
  /\ bgRec = [p \in Procs |-> NoRec]
  /\ bgRel = [p \in Procs |-> NoRel]
  /\ rLastGrant = [h \in RHosts |-> 0]
  /\ rCalls = 0

\* validateSmtp and the handshake at rest
NoResult == [smtpStatus |-> "none", reasonCodes |-> <<>>]
NoSent ==
  [code |-> 0, indicated |-> FALSE, final |-> <<>>, ehlo |-> <<>>,
   starttls |-> FALSE]
DefaultSmtpConfig ==
  [maxMxAttempts |-> 2, softRetryLimit |-> 1, randomizeSamePriority |-> TRUE,
   requireTls |-> FALSE]
HsIdle ==
  /\ step = 0
  /\ currentTimeout = FALSE
  /\ ehloCapabilities = {}
OrchIdle ==
  /\ orch = [pc |-> "start", phase |-> "none", mxi |-> 0, attempt |-> 0,
             lastResult |-> NoResult, catchAllResult |-> "inconclusive",
             mxRecords |-> <<>>, failureReasons |-> <<>>,
             result |-> NoResult]
  /\ mxToTry = <<>>
  /\ slotHeld = FALSE
  /\ lastRecord = "none"
  /\ probeOutcomes = {}
  /\ rcptRealSent = FALSE
  /\ firstDefinitive = "none"
  /\ contactedAfter = FALSE
  /\ seen = {}
  /\ releaseCalls = 0
  /\ visited = <<>>
RcptIdle ==
  /\ events = <<>>
  /\ hsOutcome = NoResult
  /\ sent = NoSent
\* The connection, the containers, the cache and validateMx at rest.  An
\* entry of an InMemoryCache is absent or holds data and the instant it
\* expires; a Redis string key holds a text and the instant it expires (-1:
\* the key does not exist).
NoEntry == [present |-> FALSE, data |-> <<>>, expiresAt |-> 0]
NoText == [v |-> "", exp |-> -1]
NoCall == [kind |-> "none", value |-> <<>>, ttlMs |-> 0, expect |-> NoEntry]
NoGet ==
  [done |-> FALSE, inTime |-> FALSE, returnsSet |-> FALSE, held |-> FALSE,
   returnsHeld |-> FALSE]
NoImporter == [obtained |-> "no", executedBy |-> "none", calls |-> 0]
NoMxCall == [pc |-> "idle", value |-> <<>>]
NoMx ==
  [prev |-> "none", until |-> 0, done |-> FALSE, queried |-> FALSE,
   inTime |-> FALSE, hit |-> FALSE, domainHasMx |-> FALSE, kind |-> "none",
   cachedUntil |-> 0]
HotIdle ==
  /\ redisClient = "off"
  /\ readyHandlers = FALSE
  /\ throttleStateContainer = "memory"
  /\ cacheContainer = "memory"
  /\ cleanupInterval = 0
  /\ importer = NoImporter
  /\ memoryCache = NoEntry
  /\ fallback = NoEntry
  /\ redisKey = NoText
  /\ cacheCall = NoCall
  /\ lastSet = NoEntry
  /\ lastGet = NoGet
  /\ mxCall = NoMxCall
  /\ lastMx = NoMx
\* The timeouts validateSmtp is called with, and an attempt not begun.  The
\* trace lists what is done with the socket, and the return of the verdict.
DefaultTimeouts ==
  [bannerTimeoutMs |-> 2000, ehloTimeoutMs |-> 2000, mailTimeoutMs |-> 2000,
   rcptTimeoutMs |-> 3000, overallTimeoutMs |-> 10000, requireTls |-> FALSE]
NoSingle ==
  [pc |-> "idle", cfg |-> DefaultTimeouts, overallDue |-> 0, deadline |-> 0,
   trace |-> <<>>, cause |-> "none", endedStep |-> 0, endedAt |-> 0,
   result |-> NoResult, slots |-> 0]
SingleIdle == single = NoSingle

SmtpIdle ==
  /\ HsIdle
  /\ OrchIdle
  /\ RcptIdle
  /\ scfg = DefaultSmtpConfig

InitMem ==
  /\ now = 1000
  /\ config \in Configs
  /\ severeRun = [h \in Hosts |-> 0]
  /\ penaltyEnds = [h \in Hosts |-> 0]
  /\ penalties = 0
  /\ mxStates = <<>>
  /\ globalConcurrency = 0
  /\ pc = [c \in Callers |-> "idle"]
  /\ chost = [c \in Callers |-> NoHost]
  /\ startTime = [c \in Callers |-> 0]
  /\ wakeAt = [c \in Callers |-> 0]
  /\ RedisIdle
  /\ SmtpIdle
  /\ HotIdle
  /\ SingleIdle

NextMem ==
  \/ \E c \in Callers, h \in Hosts : AcquireSlot(c, h)
  \/ \E c \in Callers : AcquireResume(c)
  \/ \E c \in Callers : ReleaseSlot(c)
  \/ \E c \in Callers : RecordSuccess(c)
  \/ \E c \in Callers, p \in BOOLEAN : RecordFailure(c, p)
  \/ Advance

SpecMem == InitMem /\ [][NextMem]_vars

\* What the runtime guarantees to the callers: time passes, so every timer
\* comes due, and a continuation whose timer has fired is run
MemFairness ==
  /\ WF_vars(Advance)
  /\ \A c \in Callers : WF_vars(AcquireResume(c))

SpecMemLive == InitMem /\ [][NextMem]_vars /\ MemFairness

----------------------------------------------------------------------------
(* InMemoryThrottleStore called directly: besides the callers that acquire  *)
(* and release, releaseSlot is called for hosts that hold no slot, and      *)
(* recordSuccess and recordFailure are called at any time.                  *)

MaxSuccessRun == 13
MaxFailureRun == 5
MaxConfiguredMxConcurrency == 10

\* The configurations of the store: maxMxConcurrency at the ends and inside
\* its range
StoreConfigs ==
  {[maxGlobalConcurrency |-> 2, maxMxConcurrency |-> m,
    perDomainMinIntervalMs |-> 0] : m \in {1, 2, MaxConfiguredMxConcurrency}}

\* The callers and hosts of the direct calls
StoreCallers == {1}
RecordHosts == {"mx1"}

\* releaseSlot(h) with no slot of h acquired: h was never seen, or has no
\* slot in flight (never acquired, or released already)
ReleaseStray(h) ==
  /\ IF h \in DOMAIN mxStates THEN mxStates[h].concurrency = 0 ELSE TRUE
  /\ IF h \in DOMAIN mxStates
     THEN /\ mxStates' = [mxStates EXCEPT ![h] = releasedState(@)]
          /\ globalConcurrency' = Max(0, globalConcurrency - 1)
     ELSE UNCHANGED <<mxStates, globalConcurrency>>
  /\ UNCHANGED <<now, pc, chost, startTime, wakeAt, penalties, memFrame>>

\* A state no recordSuccess or recordFailure has touched
Fresh(st) == st.failures = 0 /\ st.successCount = 0

\* recordSuccess(h)
RecordSuccessCall(h) ==
  /\ IF h \in DOMAIN mxStates
     THEN /\ mxStates[h].successCount < MaxSuccessRun
          /\ mxStates' = [mxStates EXCEPT ![h] = successState(@)]
          /\ severeRun' = [severeRun EXCEPT ![h] = 0]
     ELSE UNCHANGED <<mxStates, severeRun>>
  /\ UNCHANGED <<now, config, globalConcurrency, pc, chost, startTime, wakeAt,
                 penalties, penaltyEnds, redisVars, hsVars, orchVars,
                 rcptVars, hotVars, single>>

\* recordFailure(h, shouldPenalize)
RecordFailureCall(h, shouldPenalize) ==
  /\ IF h \in DOMAIN mxStates
     THEN /\ mxStates[h].failures < MaxFailureRun
          /\ mxStates' =
               [mxStates EXCEPT ![h] = failureState(@, shouldPenalize, now)]
          /\ severeRun' =
               [severeRun EXCEPT
                  ![h] = IF ~shouldPenalize THEN 0
                         ELSE IF Fresh(mxStates[h]) THEN 1
                         ELSE IF @ > 0 THEN @ + 1
                         ELSE 0]
          /\ penaltyEnds' =
               [penaltyEnds EXCEPT
                  ![h] = IF shouldPenalize
                         THEN Max(@, now + PenaltyMs(mxStates[h].failures + 1))
                         ELSE @]
     ELSE UNCHANGED <<mxStates, severeRun, penaltyEnds>>
  /\ UNCHANGED <<now, config, globalConcurrency, pc, chost, startTime, wakeAt,
                 penalties, redisVars, hsVars, orchVars, rcptVars, hotVars, single>>

InitStore ==
  /\ now = 1000
  /\ config \in StoreConfigs
  /\ severeRun = [h \in Hosts |-> 0]
  /\ penaltyEnds = [h \in Hosts |-> 0]
  /\ penalties = 0
  /\ mxStates = <<>>
  /\ globalConcurrency = 0
  /\ pc = [c \in Callers |-> "idle"]
  /\ chost = [c \in Callers |-> NoHost]
  /\ startTime = [c \in Callers |-> 0]
  /\ wakeAt = [c \in Callers |-> 0]
  /\ RedisIdle
  /\ SmtpIdle
  /\ HotIdle
  /\ SingleIdle

NextStore ==
  \/ \E c \in StoreCallers, h \in Hosts : AcquireSlot(c, h)
  \/ \E c \in StoreCallers : AcquireResume(c)
  \/ \E c \in StoreCallers : ReleaseSlot(c)
  \/ \E h \in Hosts : ReleaseStray(h)
  \/ \E h \in RecordHosts : RecordSuccessCall(h)
  \/ \E h \in RecordHosts, p \in BOOLEAN : RecordFailureCall(h, p)
  \/ Advance

SpecStore == InitStore /\ [][NextStore]_vars

\* Slots acquired and not yet released, per host and in all
Held(h) ==
  Cardinality({c \in Callers : pc[c] \in {"holding", "recorded"} /\ chost[c] = h})
HeldAll == Cardinality({c \in Callers : pc[c] \in {"holding", "recorded"}})
\* The adaptive ceiling the host state holds
Ceiling(h) ==
  IF h \in DOMAIN mxStates THEN mxStates[h].maxConcurrency
  ELSE Min(config.maxMxConcurrency, StartCeiling)

----------------------------------------------------------------------------
(* Claims on the in-memory store *)

\* C1 (as stated): in every reachable state the slots held for a host are at
\* most the host's current adaptive ceiling.  recordFailure lowers the
\* ceiling under slots that are held, so this fails.
C1_HeldWithinCurrentCeiling == \A h \in Hosts : Held(h) <= Ceiling(h)

\* C1 (amended): whenever a step grants a slot for a host, the slots then held
\* for the host are at most the ceiling the host state holds at that instant.
C1_GrantWithinCeiling ==
  [][\A h \in Hosts : Held(h)' > Held(h) => Held(h)' <= Ceiling(h)']_vars

\* A host with two slots held, filling its ceiling, after a recorded failure
C1_Witness ==
  \E h \in Hosts :
    /\ h \in DOMAIN mxStates
    /\ Held(h) = 2
    /\ mxStates[h].maxConcurrency = 2
    /\ mxStates[h].failures >= 1

\* C2: the slots held, summed over all hosts, never exceed the
\* maxGlobalConcurrency every caller passes.
C2_GlobalWithinCeiling == HeldAll <= config.maxGlobalConcurrency

\* The global ceiling is reached by a slot on one host while a caller for
\* another host waits
C2_Witness ==
  /\ HeldAll = config.maxGlobalConcurrency
  /\ \E c, d \in Callers :
       /\ pc[c] = "sleeping"
       /\ pc[d] \in {"holding", "recorded"}
       /\ chost[c] # chost[d]

----------------------------------------------------------------------------
(* The Redis-backed store: RedisThrottleStore and the helpers of cache.ts.  *)
(* A key is a record [v, exp]: its value and the instant it expires        *)
(* (0: no TTL, -1: the key does not exist).  Every command is one round    *)
(* trip and takes effect on the server at the instant `now`; a process's   *)
(* steps between two awaits belong to the action of the reply that         *)
(* resumes it.                                                             *)

\* REDIS_THROTTLE_TTL_SECONDS: the least value the configuration accepts
throttleTtlSeconds == 10
DefaultWaitMs == 500
MaxSleepMs == 1000
RecordCeiling == 2

Live(k) == k.exp # -1

\* tonumber(redis.call('GET', key)) or 0
GetNum(k) == IF Live(k) THEN k.v ELSE 0
\* getFromRedis<MxState>(stateKey): the stored state, or null
GetState(k) == IF Live(k) THEN k.v ELSE NoState
\* INCR / DECR create a missing key at 0, without a TTL, and keep the TTL of
\* an existing one
Incr(k) == IF Live(k) THEN [k EXCEPT !.v = @ + 1] ELSE [v |-> 1, exp |-> 0]
Decr(k) == IF Live(k) THEN [k EXCEPT !.v = @ - 1] ELSE [v |-> -1, exp |-> 0]
\* SET key value EX ttl, and EXPIRE key ttl
SetEx(val, ttlSeconds) == [v |-> val, exp |-> now + ttlSeconds * 1000]
Expire(k, ttlSeconds) == [k EXCEPT !.exp = now + ttlSeconds * 1000]

\* The reason code the Lua script returns (0: success) for the arguments the
\* caller passes
ScriptReason(h, maxGlobal, maxMx, tnow, minInterval) ==
  IF tnow < GetNum(rPenalty[h]) THEN 1
  ELSE IF GetNum(rLast[h]) > 0 /\ tnow - GetNum(rLast[h]) < minInterval THEN 2
  ELSE IF GetNum(rGlobal) >= maxGlobal THEN 3
  ELSE IF GetNum(rMx[h]) >= maxMx THEN 4
  ELSE 0

\* The waitMs the script returns with a rejection
ScriptWaitMs(h, reason, tnow, minInterval) ==
  IF reason = 1 THEN GetNum(rPenalty[h]) - tnow
  ELSE IF reason = 2 THEN minInterval - (tnow - GetNum(rLast[h]))
  ELSE DefaultWaitMs

\* The counter after the script's INCR and its conditional EXPIRE
IncrFirstExpire(k, ttlSeconds) ==
  IF Incr(k).v = 1 THEN Expire(Incr(k), ttlSeconds) ELSE Incr(k)

\* state?.maxConcurrency || Math.min(config.maxMxConcurrency, 2)
CeilingOf(st) ==
  IF st.present /\ st.maxConcurrency # 0 THEN st.maxConcurrency
  ELSE Min(config.maxMxConcurrency, StartCeiling)

RIdle(p) ==
  /\ rpc' = [rpc EXCEPT ![p] = "idle"]
  /\ rhost' = [rhost EXCEPT ![p] = NoHost]
  /\ rstart' = [rstart EXCEPT ![p] = 0]
  /\ rnow' = [rnow EXCEPT ![p] = 0]
  /\ rsnap' = [rsnap EXCEPT ![p] = NoState]
  /\ rwake' = [rwake EXCEPT ![p] = 0]
  /\ rceil' = [rceil EXCEPT ![p] = 0]

\* The top of the while loop: read the clock, give up after maxWaitTime,
\* else send the GET of the host state
RLoopTop(p, h, start) ==
  IF now - start > maxWaitTime
  THEN RIdle(p)
  ELSE /\ rpc' = [rpc EXCEPT ![p] = "get"]
       /\ rhost' = [rhost EXCEPT ![p] = h]
       /\ rstart' = [rstart EXCEPT ![p] = start]
       /\ rnow' = [rnow EXCEPT ![p] = now]
       /\ rwake' = [rwake EXCEPT ![p] = 0]
       /\ UNCHANGED <<rsnap, rceil>>

\* RedisThrottleStore.acquireSlot is called
RAcquireSlot(p, h) ==
  /\ rpc[p] = "idle"
  /\ bgRec[p].st = "none"
  /\ bgRel[p].st = "none"
  /\ rCalls < MaxCalls
  /\ rCalls' = rCalls + 1
  /\ RLoopTop(p, h, now)
  /\ UNCHANGED <<now, storeVars, bgVars, rLastGrant, redisFrame>>

\* sleep(...) is over: continue
RResume(p) ==
  /\ rpc[p] = "sleeping"
  /\ rwake[p] = 0
  /\ RLoopTop(p, rhost[p], rstart[p])
  /\ UNCHANGED <<now, storeVars, bgVars, histVars, redisFrame>>

\* The server answers the GET of the host state; the process derives the
\* ceiling and sends the script
RGetState(p) ==
  /\ rpc[p] = "get"
  /\ rsnap' = [rsnap EXCEPT ![p] = GetState(rState[rhost[p]])]
  /\ rceil' = [rceil EXCEPT ![p] = CeilingOf(GetState(rState[rhost[p]]))]
  /\ rpc' = [rpc EXCEPT ![p] = "eval"]
  /\ UNCHANGED <<now, storeVars, rhost, rstart, rnow, rwake, bgVars,
                 histVars, redisFrame>>

\* The newState acquireSlot builds after a grant
GrantedState(snap, mxCount, ceiling) ==
  [present |-> TRUE, concurrency |-> mxCount, maxConcurrency |-> ceiling,
   failures |-> snap.failures, successCount |-> snap.successCount]

\* The server runs the Lua script with the arguments of process p
REval(p) ==
  /\ rpc[p] = "eval"
  /\ LET h == rhost[p]
         reason == ScriptReason(h, config.maxGlobalConcurrency, rceil[p],
                                rnow[p], config.perDomainMinIntervalMs)
         waitMs == ScriptWaitMs(h, reason, rnow[p],
                                config.perDomainMinIntervalMs)
     IN IF reason = 0
        THEN /\ rGlobal' = IncrFirstExpire(rGlobal, throttleTtlSeconds)
             /\ rMx' = [rMx EXCEPT
                          ![h] = IncrFirstExpire(@, throttleTtlSeconds)]
             /\ rLast' = [rLast EXCEPT
                            ![h] = SetEx(rnow[p], throttleTtlSeconds)]
             /\ rpc' = [rpc EXCEPT ![p] = "set"]
             /\ rsnap' = [rsnap EXCEPT
                            ![p] = GrantedState(@, Incr(rMx[h]).v, rceil[p])]
             /\ rnow' = [rnow EXCEPT ![p] = 0]
             /\ rstart' = [rstart EXCEPT ![p] = 0]
             /\ rLastGrant' = [rLastGrant EXCEPT ![h] = now]
             /\ UNCHANGED <<rwake, rceil, rCalls>>
        ELSE /\ rpc' = [rpc EXCEPT ![p] = "sleeping"]
             /\ rwake' = [rwake EXCEPT
                            ![p] = now + Min(IF waitMs > 0 THEN waitMs
                                             ELSE DefaultWaitMs, MaxSleepMs)]
             /\ rsnap' = [rsnap EXCEPT ![p] = NoState]
             /\ rnow' = [rnow EXCEPT ![p] = 0]
             /\ rceil' = [rceil EXCEPT ![p] = 0]
             /\ UNCHANGED <<rGlobal, rMx, rLast, rstart, histVars>>
  /\ UNCHANGED <<now, rPenalty, rState, rhost, bgVars, redisFrame>>

\* The server stores the newState; acquireSlot returns
RSetState(p) ==
  /\ rpc[p] = "set"
  /\ rState' = [rState EXCEPT ![rhost[p]] = SetEx(rsnap[p], throttleTtlSeconds)]
  /\ rpc' = [rpc EXCEPT ![p] = "holding"]
  /\ rsnap' = [rsnap EXCEPT ![p] = NoState]
  /\ UNCHANGED <<now, rGlobal, rMx, rPenalty, rLast, rhost, rstart, rnow,
                 rwake, rceil, bgVars, histVars, redisFrame>>

\* Bounds on what the attempts of a run may record for a host
FailuresInFlight(h) ==
  Cardinality({q \in Procs : bgRec[q].host = h
                             /\ bgRec[q].kind \in {"failure", "severe"}})
SuccessesInFlight(h) ==
  Cardinality({q \in Procs : bgRec[q].host = h /\ bgRec[q].kind = "success"})
PenaltiesPending ==
  Cardinality({h \in RHosts : Live(rPenalty[h])})
  + Cardinality({q \in Procs : bgRec[q].kind = "severe"})

\* The attempt that holds the slot ends (validateSmtpSingle): recordSuccess
\* or recordFailure and then releaseSlot are called; both return at once and
\* go on in the background
RFinish(p, kind) ==
  /\ rpc[p] = "holding"
  /\ kind = "success" =>
       GetState(rState[rhost[p]]).successCount
         + SuccessesInFlight(rhost[p]) < MaxSuccessCount
  /\ kind # "success" =>
       GetState(rState[rhost[p]]).failures
         + FailuresInFlight(rhost[p]) < MaxFailures
  /\ kind = "severe" => PenaltiesPending < MaxPenalties
  /\ bgRec' = [bgRec EXCEPT
                 ![p] = [st |-> "get", host |-> rhost[p], kind |-> kind,
                         state |-> NoState, penaltyUntil |-> 0]]
  /\ bgRel' = [bgRel EXCEPT
                 ![p] = [st |-> "decrMx", host |-> rhost[p],
                         state |-> NoState]]
  /\ RIdle(p)
  /\ UNCHANGED <<now, storeVars, histVars, redisFrame>>

\* The state recordSuccess / recordFailure start from when the key is missing
RecordDefault ==
  [present |-> TRUE, concurrency |-> 0, maxConcurrency |-> RecordCeiling,
   failures |-> 0, successCount |-> 0]

RedisSuccessState(st) ==
  LET s1 == [st EXCEPT !.successCount = @ + 1, !.failures = Max(0, @ - 1)]
  IN IF s1.successCount > SuccessThreshold /\ s1.maxConcurrency < HardCeiling
     THEN [s1 EXCEPT !.maxConcurrency = Min(@ + 1, HardCeiling)]
     ELSE s1

RedisPenaltyMs(failures) == Min(PenaltyCapMs, PenaltyBaseMs * Pow2(failures))

RedisFailureState(st) ==
  LET s1 == [st EXCEPT !.failures = @ + 1, !.successCount = 0]
  IN IF s1.failures > FailureThreshold /\ s1.maxConcurrency > 1
     THEN [s1 EXCEPT !.maxConcurrency = Max(1, @ - 1)]
     ELSE s1

\* The commands of one process travel on one connection (the redisClient
\* singleton) and the server runs them in the order they were sent.  The
\* record call is made before the release call, and each of the two sends
\* its next command when the reply to its last one arrives: the server runs
\* the k-th command of the record before the k-th of the release, and that
\* one before the (k+1)-th of the record.
RecDone(r) ==
  IF r.st = "get" THEN 0
  ELSE IF r.st = "penalty" THEN 1
  ELSE IF r.st = "set" THEN (IF r.kind = "severe" THEN 2 ELSE 1)
  ELSE 4
RelDone(r) ==
  IF r.st = "decrMx" THEN 0
  ELSE IF r.st = "decrGlobal" THEN 1
  ELSE IF r.st = "get" THEN 2
  ELSE IF r.st = "set" THEN 3
  ELSE 4
RecNext(p) == RelDone(bgRel[p]) >= RecDone(bgRec[p])
RelNext(p) == RecDone(bgRec[p]) > RelDone(bgRel[p])

\* recordSuccess / recordFailure: the server answers the GET of the state
RecGet(p) ==
  /\ bgRec[p].st = "get"
  /\ RecNext(p)
  /\ LET h == bgRec[p].host
         st == IF Live(rState[h]) THEN rState[h].v ELSE RecordDefault
     IN bgRec' = [bgRec EXCEPT
          ![p] = IF bgRec[p].kind = "success"
                 THEN [@ EXCEPT !.st = "set", !.state = RedisSuccessState(st)]
                 ELSE IF bgRec[p].kind = "severe"
                 THEN [@ EXCEPT
                         !.st = "penalty",
                         !.state = RedisFailureState(st),
                         !.penaltyUntil =
                            now + RedisPenaltyMs(RedisFailureState(st).failures)]
                 ELSE [@ EXCEPT !.st = "set",
                                !.state = RedisFailureState(st)]]
  /\ UNCHANGED <<now, storeVars, procVars, bgRel, histVars, redisFrame>>

\* recordFailure: the server stores the penalty key, with the TTL
\* Math.ceil(penaltyMs / 1000)
RecPenalty(p) ==
  /\ bgRec[p].st = "penalty"
  /\ RecNext(p)
  /\ LET h == bgRec[p].host
         penaltyMs == RedisPenaltyMs(bgRec[p].state.failures)
     IN rPenalty' = [rPenalty EXCEPT
          ![h] = SetEx(bgRec[p].penaltyUntil, (penaltyMs + 999) \div 1000)]
  /\ bgRec' = [bgRec EXCEPT ![p].st = "set", ![p].penaltyUntil = 0]
  /\ UNCHANGED <<now, rGlobal, rMx, rLast, rState, procVars, bgRel, histVars,
                 redisFrame>>

\* recordSuccess / recordFailure: the server stores the state
RecSet(p) ==
  /\ bgRec[p].st = "set"
  /\ RecNext(p)
  /\ rState' = [rState EXCEPT
                  ![bgRec[p].host] = SetEx(bgRec[p].state, throttleTtlSeconds)]
  /\ bgRec' = [bgRec EXCEPT ![p] = NoRec]
  /\ UNCHANGED <<now, rGlobal, rMx, rPenalty, rLast, procVars, bgRel,
                 histVars, redisFrame>>

\* releaseSlot: the server runs DECR on the host counter
RelDecrMx(p) ==
  /\ bgRel[p].st = "decrMx"
  /\ RelNext(p)
  /\ rMx' = [rMx EXCEPT ![bgRel[p].host] = Decr(@)]
  /\ bgRel' = [bgRel EXCEPT ![p].st = "decrGlobal"]
  /\ UNCHANGED <<now, rGlobal, rPenalty, rLast, rState, procVars, bgRec,
                 histVars, redisFrame>>

\* releaseSlot: the server runs DECR on the global counter
RelDecrGlobal(p) ==
  /\ bgRel[p].st = "decrGlobal"
  /\ RelNext(p)
  /\ rGlobal' = Decr(rGlobal)
  /\ bgRel' = [bgRel EXCEPT ![p].st = "get"]
  /\ UNCHANGED <<now, rMx, rPenalty, rLast, rState, procVars, bgRec,
                 histVars, redisFrame>>

\* releaseSlot: the server answers the GET of the state
RelGet(p) ==
  /\ bgRel[p].st = "get"
  /\ RelNext(p)
  /\ LET k == rState[bgRel[p].host]
     IN bgRel' = [bgRel EXCEPT
          ![p] = IF Live(k)
                 THEN [@ EXCEPT !.st = "set",
                         !.state = [k.v EXCEPT
                                      !.concurrency = Max(0, @ - 1)]]
                 ELSE NoRel]
  /\ UNCHANGED <<now, storeVars, procVars, bgRec, histVars, redisFrame>>

\* releaseSlot: the server stores the state
RelSet(p) ==
  /\ bgRel[p].st = "set"
  /\ RelNext(p)
  /\ rState' = [rState EXCEPT
                  ![bgRel[p].host] = SetEx(bgRel[p].state, throttleTtlSeconds)]
  /\ bgRel' = [bgRel EXCEPT ![p] = NoRel]
  /\ UNCHANGED <<now, rGlobal, rMx, rPenalty, rLast, procVars, bgRec,
                 histVars, redisFrame>>

\* A key whose TTL has run out at instant t is gone
Expired(k, t) == IF k.exp > 0 /\ k.exp <= t THEN NoKey ELSE k
ExpiredState(k, t) == IF k.exp > 0 /\ k.exp <= t THEN NoStateKey ELSE k

\* Time passes; the keys whose TTL has run out disappear and the timers that
\* are due fire
RAdvance ==
  \E t \in RInstants :
    /\ t > now
    /\ now' = t
    /\ rGlobal' = Expired(rGlobal, t)
    /\ rMx' = [h \in RHosts |-> Expired(rMx[h], t)]
    /\ rPenalty' = [h \in RHosts |-> Expired(rPenalty[h], t)]
    /\ rLast' = [h \in RHosts |-> Expired(rLast[h], t)]
    /\ rState' = [h \in RHosts |-> ExpiredState(rState[h], t)]
    /\ rwake' = [p \in Procs |-> IF rwake[p] <= t THEN 0 ELSE rwake[p]]
    /\ UNCHANGED <<rpc, rhost, rstart, rnow, rsnap, rceil, bgVars, histVars,
                   redisFrame>>

MemIdle ==
  /\ severeRun = [h \in Hosts |-> 0]
  /\ penaltyEnds = [h \in Hosts |-> 0]
  /\ penalties = 0
  /\ mxStates = <<>>
  /\ globalConcurrency = 0
  /\ pc = [c \in Callers |-> "idle"]
  /\ chost = [c \in Callers |-> NoHost]
  /\ startTime = [c \in Callers |-> 0]
  /\ wakeAt = [c \in Callers |-> 0]

InitRedis ==
  /\ now = 1000
  /\ config \in Configs
  /\ MemIdle
  /\ RedisIdle
  /\ SmtpIdle
  /\ HotIdle
  /\ SingleIdle

NextRedis ==
  \/ \E p \in Procs, h \in RHosts : RAcquireSlot(p, h)
  \/ \E p \in Procs : RResume(p)
  \/ \E p \in Procs : RGetState(p)
  \/ \E p \in Procs : REval(p)
  \/ \E p \in Procs : RSetState(p)
  \/ \E p \in Procs, kind \in {"success", "failure", "severe"} : RFinish(p, kind)
  \/ \E p \in Procs : RecGet(p)
  \/ \E p \in Procs : RecPenalty(p)
  \/ \E p \in Procs : RecSet(p)
  \/ \E p \in Procs : RelDecrMx(p)
  \/ \E p \in Procs : RelDecrGlobal(p)
  \/ \E p \in Procs : RelGet(p)
  \/ \E p \in Procs : RelSet(p)
  \/ RAdvance

SpecRedis == InitRedis /\ [][NextRedis]_vars

----------------------------------------------------------------------------
(* The two stores side by side: one process issues every call to an        *)
(* InMemoryThrottleStore (as caller Driver) and to a RedisThrottleStore (as *)
(* process Driver), with the same arguments and at the same clock reading.  *)

\* The number the process has as a caller of either store
Driver == CHOOSE d \in StoreCallers : TRUE

pairFrame == <<config, hsVars, orchVars, rcptVars, storeHist,
               hotVars, single>>

\* acquireSlot(h, config) is called on both stores
PairAcquire(h) ==
  /\ pc[Driver] = "idle"
  /\ rpc[Driver] = "idle"
  /\ bgRec[Driver].st = "none"
  /\ bgRel[Driver].st = "none"
  /\ rCalls < MaxCalls
  /\ rCalls' = rCalls + 1
  /\ LoopIteration(Driver, h, getOrCreateState(h, config.maxMxConcurrency), now)
  /\ RLoopTop(Driver, h, now)
  /\ UNCHANGED <<now, penalties, storeVars, bgVars, rLastGrant, pairFrame>>

\* The attempt ends on both stores: recordSuccess or recordFailure, then
\* releaseSlot.  The in-memory store has applied both when they return; the
\* Redis store has only started them.
PairFinish(kind) ==
  /\ pc[Driver] = "holding"
  /\ rpc[Driver] = "holding"
  /\ chost[Driver] = rhost[Driver]
  /\ chost[Driver] \in DOMAIN mxStates
  /\ kind = "success" => mxStates[chost[Driver]].successCount < MaxSuccessCount
  /\ kind # "success" => mxStates[chost[Driver]].failures < MaxFailures
  /\ kind = "severe" => penalties < MaxPenalties
  /\ penalties' = IF kind = "severe" THEN penalties + 1 ELSE penalties
  /\ mxStates' =
       [mxStates EXCEPT
          ![chost[Driver]] =
             releasedState(IF kind = "success" THEN successState(@)
                           ELSE failureState(@, kind = "severe", now))]
  /\ globalConcurrency' = Max(0, globalConcurrency - 1)
  /\ pc' = [pc EXCEPT ![Driver] = "idle"]
  /\ chost' = [chost EXCEPT ![Driver] = NoHost]
  /\ bgRec' = [bgRec EXCEPT
                 ![Driver] = [st |-> "get", host |-> rhost[Driver],
                              kind |-> kind, state |-> NoState,
                              penaltyUntil |-> 0]]
  /\ bgRel' = [bgRel EXCEPT
                 ![Driver] = [st |-> "decrMx", host |-> rhost[Driver],
                              state |-> NoState]]
  /\ RIdle(Driver)
  /\ UNCHANGED <<now, startTime, wakeAt, storeVars, histVars, pairFrame>>

\* Time passes for both stores
PairAdvance ==
  /\ \E t \in Instants :
       /\ t > now
       /\ now' = t
       /\ wakeAt' = [c \in Callers |-> IF wakeAt[c] <= t THEN 0 ELSE wakeAt[c]]
       /\ rGlobal' = Expired(rGlobal, t)
       /\ rMx' = [h \in RHosts |-> Expired(rMx[h], t)]
       /\ rPenalty' = [h \in RHosts |-> Expired(rPenalty[h], t)]
       /\ rLast' = [h \in RHosts |-> Expired(rLast[h], t)]
       /\ rState' = [h \in RHosts |-> ExpiredState(rState[h], t)]
       /\ rwake' = [p \in Procs |-> IF rwake[p] <= t THEN 0 ELSE rwake[p]]
  /\ UNCHANGED <<mxStates, globalConcurrency, pc, chost, startTime, penalties,
                 rpc, rhost, rstart, rnow, rsnap, rceil, bgVars, histVars,
                 pairFrame>>

NextPair ==
  \/ \E h \in RHosts : PairAcquire(h)
  \/ AcquireResume(Driver)
  \/ RResume(Driver)
  \/ RGetState(Driver)
  \/ REval(Driver)
  \/ RSetState(Driver)
  \/ \E kind \in {"success", "failure", "severe"} : PairFinish(kind)
  \/ RecGet(Driver)
  \/ RecPenalty(Driver)
  \/ RecSet(Driver)
  \/ RelDecrMx(Driver)
  \/ RelDecrGlobal(Driver)
  \/ RelGet(Driver)
  \/ RelSet(Driver)
  \/ PairAdvance

SpecPair == InitRedis /\ [][NextPair]_vars

\* What a store holds for a host: the in-flight count its gate reads, the
\* failure count, the success streak, the adaptive ceiling and the end of a
\* penalty still running (0: none)
RunningPenalty(penaltyUntil) == IF now < penaltyUntil THEN penaltyUntil ELSE 0

MemView(h) ==
  LET st == IF h \in DOMAIN mxStates THEN mxStates[h]
            ELSE NewMxState(config.maxMxConcurrency)
  IN [concurrency |-> st.concurrency, failures |-> st.failures,
      successCount |-> st.successCount, maxConcurrency |-> st.maxConcurrency,
      penaltyUntil |-> RunningPenalty(st.penaltyUntil)]

RedisView(h) ==
  LET st == GetState(rState[h])
  IN [concurrency |-> GetNum(rMx[h]), failures |-> st.failures,
      successCount |-> st.successCount, maxConcurrency |-> CeilingOf(st),
      penaltyUntil |-> RunningPenalty(GetNum(rPenalty[h]))]

\* Every call made has returned on both stores, the background work of the
\* Redis store is over and no timer that has fired waits to be served
PairSettled ==
  /\ rpc[Driver] \in {"idle", "holding", "sleeping"}
  /\ bgRec[Driver].st = "none"
  /\ bgRel[Driver].st = "none"
  /\ pc[Driver] = "sleeping" => wakeAt[Driver] # 0
  /\ rpc[Driver] = "sleeping" => rwake[Driver] # 0

\* Slots a process has been granted and has not yet released
RHeld(h) ==
  Cardinality({p \in Procs : rpc[p] \in {"set", "holding"} /\ rhost[p] = h})
RHeldAll == Cardinality({p \in Procs : rpc[p] \in {"set", "holding"}})

\* The greatest ceiling the holders of a slot for h passed to the script
MaxCeilingPassed(h) ==
  LET cs == {rceil[p] : p \in {q \in Procs : rpc[q] \in {"set", "holding"}
                                             /\ rhost[q] = h}}
  IN IF cs = {} THEN 0 ELSE CHOOSE c \in cs : \A d \in cs : d <= c

\* A step in which the script grants a slot to process p
RGrant(p) == rpc[p] = "eval" /\ rpc'[p] = "set"

----------------------------------------------------------------------------
(* Claims on the Redis-backed store *)

\* C3: with the Redis backend, in every reachable state the slots held are at
\* most maxGlobalConcurrency overall and, per host, at most the ceiling
\* passed to the script, also after a counter key's TTL has run out while
\* slots are held.  The counters get a TTL when they go from 0 to 1 and lose
\* the held slots when it runs out, so this fails.
C3_RedisHeldWithinCeilings ==
  /\ RHeldAll <= config.maxGlobalConcurrency
  /\ \A h \in RHosts : RHeld(h) <= MaxCeilingPassed(h)

\* C4: for every host, the instants of two grants differ by at least
\* perDomainMinIntervalMs.  The script compares the timestamp the caller read
\* before its round trips, not the instant at which it runs, so two grants
\* can take effect at the same instant.
C4_RedisGrantsSpaced ==
  [][\A p \in Procs :
       RGrant(p) =>
         \/ rLastGrant[rhost[p]] = 0
         \/ now - rLastGrant[rhost[p]] >= config.perDomainMinIntervalMs]_vars

\* C4, in-memory store: a grant for a host comes at least
\* perDomainMinIntervalMs after the last one
C4_MemGrantsSpaced ==
  [][\A h \in Hosts :
       (Held(h)' > Held(h) /\ h \in DOMAIN mxStates) =>
         \/ mxStates[h].lastAttemptAt = 0
         \/ now - mxStates[h].lastAttemptAt >= config.perDomainMinIntervalMs]_vars

\* C5: the four gates and the increment are one indivisible step: when the
\* script grants, every value a gate depends on is the current one; in
\* particular the host ceiling the script compares with is the ceiling the
\* store holds for the host at that instant.  The ceiling is read by a GET
\* that precedes the script, and a recordFailure can lower it in between.
C5_GatesAndIncrementAtomic ==
  [][\A p \in Procs :
       RGrant(p) => rceil[p] = CeilingOf(GetState(rState[rhost[p]]))]_vars

----------------------------------------------------------------------------
(* smtpValidator.ts: response lines, error messages and the functions that  *)
(* read them.  A string is a sequence of one-character strings.             *)

Digits == <<"0", "1", "2", "3", "4", "5", "6", "7", "8", "9">>
UpperChars ==
  <<"A", "B", "C", "D", "E", "F", "G", "H", "I", "J", "K", "L", "M", "N",
    "O", "P", "Q", "R", "S", "T", "U", "V", "W", "X", "Y", "Z">>
LowerChars ==
  <<"a", "b", "c", "d", "e", "f", "g", "h", "i", "j", "k", "l", "m", "n",
    "o", "p", "q", "r", "s", "t", "u", "v", "w", "x", "y", "z">>

\* The texts the code looks for, and the messages of the errors it raises
\* or receives
Str ==
  [ CatchAll |-> <<"c", "a", "t", "c", "h", "-", "a", "l", "l">>,
    AcceptAll |-> <<"a", "c", "c", "e", "p", "t", " ", "a", "l", "l">>,
    AcceptsAll |-> <<"a", "c", "c", "e", "p", "t", "s", " ", "a", "l",
        "l">>,
    Greylist |-> <<"g", "r", "e", "y", "l", "i", "s", "t">>,
    TryAgain |-> <<"t", "r", "y", " ", "a", "g", "a", "i", "n">>,
    Retry |-> <<"r", "e", "t", "r", "y">>,
    Rate |-> <<"r", "a", "t", "e">>,
    Throttle |-> <<"t", "h", "r", "o", "t", "t", "l", "e">>,
    TooMany |-> <<"t", "o", "o", " ", "m", "a", "n", "y">>,
    StartTls |-> <<"S", "T", "A", "R", "T", "T", "L", "S">>,
    UnexpectedGreeting |-> <<"U", "n", "e", "x", "p", "e", "c", "t", "e",
        "d", " ", "g", "r", "e", "e", "t", "i", "n", "g", ":", " ">>,
    EhloRejected |-> <<"E", "H", "L", "O", " ", "r", "e", "j", "e", "c",
        "t", "e", "d", ":", " ">>,
    MailFromRejected |-> <<"M", "A", "I", "L", " ", "F", "R", "O", "M", " ",
        "r", "e", "j", "e", "c", "t", "e", "d", ":", " ">>,
    ClosedPrematurely |-> <<"C", "o", "n", "n", "e", "c", "t", "i", "o",
        "n", " ", "c", "l", "o", "s", "e", "d", " ", "p", "r", "e", "m",
        "a", "t", "u", "r", "e", "l", "y">>,
    OperationTimeout |-> <<"S", "M", "T", "P", " ", "o", "p", "e", "r", "a",
        "t", "i", "o", "n", " ", "t", "i", "m", "e", "o", "u", "t", " ",
        "a", "f", "t", "e", "r", " ", "1", "0", "0", "0", "0", "m", "s">>,
    BannerTimeout |-> <<"b", "a", "n", "n", "e", "r", "_", "t", "i", "m",
        "e", "o", "u", "t">>,
    EhloTimeout |-> <<"e", "h", "l", "o", "_", "t", "i", "m", "e", "o", "u",
        "t">>,
    MailTimeout |-> <<"m", "a", "i", "l", "_", "t", "i", "m", "e", "o", "u",
        "t">>,
    RcptTimeout |-> <<"r", "c", "p", "t", "_", "t", "i", "m", "e", "o", "u",
        "t">>,
    Timeout |-> <<"t", "i", "m", "e", "o", "u", "t">>,
    ECONNREFUSED |-> <<"E", "C", "O", "N", "N", "R", "E", "F", "U", "S",
        "E", "D">>,
    ENETUNREACH |-> <<"E", "N", "E", "T", "U", "N", "R", "E", "A", "C",
        "H">>,
    EHOSTUNREACH |-> <<"E", "H", "O", "S", "T", "U", "N", "R", "E", "A",
        "C", "H">>,
    ECONNRESET |-> <<"E", "C", "O", "N", "N", "R", "E", "S", "E", "T">>,
    ETIMEDOUT |-> <<"E", "T", "I", "M", "E", "D", "O", "U", "T">>,
    ConnectRefused |-> <<"c", "o", "n", "n", "e", "c", "t", " ", "E", "C",
        "O", "N", "N", "R", "E", "F", "U", "S", "E", "D", " ", "1", "9",
        "2", ".", "0", ".", "2", ".", "1", ":", "2", "5">>,
    ReadReset |-> <<"r", "e", "a", "d", " ", "E", "C", "O", "N", "N", "R",
        "E", "S", "E", "T">>,
    Blacklist |-> <<"b", "l", "a", "c", "k", "l", "i", "s", "t">>,
    Blocked |-> <<"b", "l", "o", "c", "k", "e", "d">>,
    Banned |-> <<"b", "a", "n", "n", "e", "d">>,
    Policy |-> <<"p", "o", "l", "i", "c", "y">>,
    Abuse |-> <<"a", "b", "u", "s", "e">>,
    Spam |-> <<"s", "p", "a", "m">>,
    Reputation |-> <<"r", "e", "p", "u", "t", "a", "t", "i", "o", "n">>,
    Rbl |-> <<"r", "b", "l">>,
    Dnsbl |-> <<"d", "n", "s", "b", "l">> ]

\* Lines a server sends: final lines of each phase, and continuation lines
Line ==
  [ Banner220 |-> <<"2", "2", "0", " ", "m", "x", " ", "r", "e", "a", "d",
        "y">>,
    Banner554 |-> <<"5", "5", "4", " ", "b", "l", "o", "c", "k", "e", "d",
        " ", "b", "y", " ", "p", "o", "l", "i", "c", "y">>,
    Ehlo250 |-> <<"2", "5", "0", " ", "m", "x", " ", "h", "e", "l", "l",
        "o">>,
    EhloStartTls |-> <<"2", "5", "0", " ", "S", "T", "A", "R", "T", "T",
        "L", "S">>,
    Ehlo530 |-> <<"5", "3", "0", " ", "M", "u", "s", "t", " ", "i", "s",
        "s", "u", "e", " ", "S", "T", "A", "R", "T", "T", "L", "S", " ",
        "f", "i", "r", "s", "t">>,
    Ehlo502 |-> <<"5", "0", "2", " ", "n", "o", "t", " ", "i", "m", "p",
        "l", "e", "m", "e", "n", "t", "e", "d">>,
    Mail250 |-> <<"2", "5", "0", " ", "2", ".", "1", ".", "0", " ", "O",
        "K">>,
    Mail530 |-> <<"5", "3", "0", " ", "M", "u", "s", "t", " ", "i", "s",
        "s", "u", "e", " ", "S", "T", "A", "R", "T", "T", "L", "S", " ",
        "f", "i", "r", "s", "t">>,
    Mail451 |-> <<"4", "5", "1", " ", "t", "r", "y", " ", "l", "a", "t",
        "e", "r">>,
    Rcpt250 |-> <<"2", "5", "0", " ", "2", ".", "1", ".", "5", " ", "O",
        "K">>,
    Rcpt550 |-> <<"5", "5", "0", " ", "5", ".", "1", ".", "1", " ", "N",
        "o", " ", "s", "u", "c", "h", " ", "u", "s", "e", "r">>,
    Rcpt451 |-> <<"4", "5", "1", " ", "g", "r", "e", "y", "l", "i", "s",
        "t", "e", "d", ",", " ", "t", "r", "y", " ", "a", "g", "a", "i",
        "n">>,
    RcptCatchAll |-> <<"2", "5", "0", " ", "c", "a", "t", "c", "h", "-",
        "a", "l", "l">>,
    Rcpt354 |-> <<"3", "5", "4", " ", "g", "o", " ", "a", "h", "e", "a",
        "d">>,
    ContCatchAll |-> <<"2", "5", "0", "-", "c", "a", "t", "c", "h", "-",
        "a", "l", "l">>,
    ContNoSuchUser |-> <<"5", "5", "0", "-", "N", "o", " ", "s", "u", "c",
        "h", " ", "u", "s", "e", "r">>,
    ContStartTls |-> <<"2", "5", "0", "-", "s", "t", "a", "r", "t", "t", "l",
        "s">>,
    ContSize |-> <<"2", "5", "0", "-", "S", "I", "Z", "E", " ", "1", "0",
        "0", "0">> ]

\* Texts of a final RCPT line, after its code
Text ==
  [ Ok |-> <<"2", ".", "1", ".", "5", " ", "O", "K">>,
    NoSuchUser |-> <<"5", ".", "1", ".", "1", " ", "N", "o", " ", "s", "u",
        "c", "h", " ", "u", "s", "e", "r">>,
    CatchAll |-> <<"t", "h", "i", "s", " ", "i", "s", " ", "a", " ", "c",
        "a", "t", "c", "h", "-", "a", "l", "l", " ", "d", "o", "m", "a",
        "i", "n">>,
    CatchAllUpper |-> <<"C", "a", "t", "c", "h", "-", "A", "l", "l">>,
    AcceptAll |-> <<"w", "e", " ", "a", "c", "c", "e", "p", "t", " ", "a",
        "l", "l", " ", "m", "a", "i", "l">>,
    AcceptsAll |-> <<"S", "e", "r", "v", "e", "r", " ", "A", "c", "c", "e",
        "p", "t", "s", " ", "A", "l", "l">>,
    TooManyRetry |-> <<"t", "o", "o", " ", "m", "a", "n", "y", ",", " ",
        "r", "e", "t", "r", "y">> ]

IsDigit(c) == \E i \in 1..10 : Digits[i] = c
\* The value of a digit character
DigitVal(c) == (CHOOSE i \in 1..10 : Digits[i] = c) - 1

\* String.prototype.toLowerCase / toUpperCase
LowerOf == [c \in {UpperChars[k] : k \in 1..26} |->
              LowerChars[CHOOSE k \in 1..26 : UpperChars[k] = c]]
UpperOf == [c \in {LowerChars[k] : k \in 1..26} |->
              UpperChars[CHOOSE k \in 1..26 : LowerChars[k] = c]]
toLowerCase(s) ==
  [i \in 1..Len(s) |-> IF s[i] \in DOMAIN LowerOf THEN LowerOf[s[i]] ELSE s[i]]
toUpperCase(s) ==
  [i \in 1..Len(s) |-> IF s[i] \in DOMAIN UpperOf THEN UpperOf[s[i]] ELSE s[i]]

\* String.prototype.includes
includes(s, sub) ==
  \E i \in 1..(Len(s) - Len(sub) + 1) :
    \A k \in 1..Len(sub) : s[i + k - 1] = sub[k]

\* String.prototype.trim, for blanks
RECURSIVE trim(_)
trim(s) ==
  IF s = <<>> THEN s
  ELSE IF Head(s) = " " THEN trim(Tail(s))
  ELSE IF s[Len(s)] = " " THEN trim(SubSeq(s, 1, Len(s) - 1))
  ELSE s

\* The code of the first three digits in a row found anywhere in the text
extractSmtpCodeAnywhere(response) ==
  LET at == {i \in 1..(Len(response) - 2) :
               /\ IsDigit(response[i]) /\ IsDigit(response[i + 1])
               /\ IsDigit(response[i + 2])}
  IN IF at = {} THEN 0
     ELSE LET i == CHOOSE k \in at : \A j \in at : k <= j
          IN 100 * DigitVal(response[i]) + 10 * DigitVal(response[i + 1])
             + DigitVal(response[i + 2])

\* response.match(/^(\d{3})/), parseInt(match[1], 10), else 0
extractSmtpCode(response) ==
  IF /\ Len(response) >= 3
     /\ IsDigit(response[1]) /\ IsDigit(response[2]) /\ IsDigit(response[3])
  THEN 100 * DigitVal(response[1]) + 10 * DigitVal(response[2])
       + DigitVal(response[3])
  ELSE 0

Verdicts ==
  {"valid", "invalid", "unknown", "catch_all", "temporarily_unavailable"}

\* The response text carries one of the three catch-all indicators
CatchAllIndicated(lowerMessage) ==
  \/ includes(lowerMessage, Str.CatchAll)
  \/ includes(lowerMessage, Str.AcceptAll)
  \/ includes(lowerMessage, Str.AcceptsAll)

GreylistIndicated(code, lowerMessage) ==
  \/ code \in {450, 451, 452}
  \/ includes(lowerMessage, Str.Greylist)
  \/ includes(lowerMessage, Str.TryAgain)
  \/ includes(lowerMessage, Str.Retry)

RateLimitIndicated(code, lowerMessage) ==
  \/ code \in {421, 452}
  \/ includes(lowerMessage, Str.Rate)
  \/ includes(lowerMessage, Str.Throttle)
  \/ includes(lowerMessage, Str.TooMany)

\* code >= 200 && code < 300
Is2xxUpTo300(code) == code >= 200 /\ code <= 300
Is2xx(code) == code >= 200 /\ code < 300

\* interpretSmtpCode(code, message, rawResponse): the SmtpValidationResult,
\* without the raw response
interpretSmtpCode(code, message) ==
  LET lowerMessage == toLowerCase(message)
  IN IF Is2xx(code)
     THEN IF CatchAllIndicated(lowerMessage)
          THEN [smtpStatus |-> "catch_all", reasonCodes |-> <<"smtp_catch_all">>]
          ELSE [smtpStatus |-> "valid", reasonCodes |-> <<"smtp_valid">>]
     ELSE IF code >= 400 /\ code < 500
     THEN [smtpStatus |-> "temporarily_unavailable",
           reasonCodes |->
             <<"smtp_temporarily_unavailable">>
             \o (IF GreylistIndicated(code, lowerMessage)
                 THEN <<"smtp_greylisted">> ELSE <<>>)
             \o (IF RateLimitIndicated(code, lowerMessage)
                 THEN <<"smtp_rate_limited">> ELSE <<>>)]
     ELSE IF code >= 500 /\ code < 600
     THEN [smtpStatus |-> "invalid", reasonCodes |-> <<"smtp_invalid">>]
     ELSE [smtpStatus |-> "unknown",
           reasonCodes |-> <<"smtp_connection_failed">>]

\* An Error: its message and, for socket errors, its code property
Err(message, code) == [message |-> message, code |-> code]

\* isHardBlockError(error)
blockIndicators ==
  {Str.Blacklist, Str.Blocked, Str.Banned, Str.Policy, Str.Abuse, Str.Spam,
   Str.Reputation, Str.Rbl, Str.Dnsbl}
isHardBlockError(error) ==
  LET message == toLowerCase(error.message)
  IN \E indicator \in blockIndicators : includes(message, indicator)

Unknown(reasonCodes) == [smtpStatus |-> "unknown", reasonCodes |-> reasonCodes]

\* mapErrorToResult(error)
mapErrorToResult(error) ==
  LET message == error.message
      code == extractSmtpCode(message)
  IN IF code > 0 THEN interpretSmtpCode(code, message)
     ELSE IF includes(message, Str.BannerTimeout)
     THEN Unknown(<<"smtp_banner_timeout", "smtp_timeout">>)
     ELSE IF includes(message, Str.EhloTimeout)
     THEN Unknown(<<"smtp_ehlo_timeout", "smtp_timeout">>)
     ELSE IF includes(message, Str.MailTimeout)
     THEN Unknown(<<"smtp_mail_timeout", "smtp_timeout">>)
     ELSE IF includes(message, Str.RcptTimeout)
     THEN Unknown(<<"smtp_rcpt_timeout", "smtp_timeout">>)
     ELSE IF includes(message, Str.ECONNREFUSED) \/ error.code = "ECONNREFUSED"
     THEN Unknown(<<"smtp_conn_refused", "smtp_connection_failed">>)
     ELSE IF \/ includes(message, Str.ENETUNREACH) \/ error.code = "ENETUNREACH"
             \/ includes(message, Str.EHOSTUNREACH)
             \/ error.code = "EHOSTUNREACH"
     THEN Unknown(<<"smtp_network_unreachable", "smtp_connection_failed">>)
     ELSE IF includes(message, Str.ECONNRESET) \/ error.code = "ECONNRESET"
     THEN Unknown(<<"smtp_conn_reset", "smtp_connection_failed">>)
     ELSE IF \/ includes(message, Str.Timeout) \/ includes(message, Str.ETIMEDOUT)
             \/ error.code = "ETIMEDOUT"
     THEN Unknown(<<"smtp_timeout">>)
     ELSE Unknown(<<"smtp_connection_failed">>)

\* The name of the phase a step waits in
PhaseOf(st) ==
  IF st = 0 THEN Str.BannerTimeout
  ELSE IF st = 1 THEN Str.EhloTimeout
  ELSE IF st = 3 THEN Str.MailTimeout
  ELSE Str.RcptTimeout

\* The capability a line of an EHLO response names
Capability(line) == toUpperCase(trim(SubSeq(line, 5, Len(line))))

\* What the 'data' handler of performSmtpHandshake does with one line at
\* step st, with the capabilities caps gathered so far:
\*   "skip"    an empty line, or a line of a multi-line response
\*   "next"    the next command is sent and its phase timer set
\*   "resolve" the handshake resolves with a result
\*   "reject"  the handshake rejects with an error
HsSkip(caps) ==
  [kind |-> "skip", caps |-> caps, step |-> 0, result |-> Unknown(<<>>),
   error |-> Err(<<>>, "")]
HsNext(st, caps) ==
  [kind |-> "next", caps |-> caps, step |-> st, result |-> Unknown(<<>>),
   error |-> Err(<<>>, "")]
HsResolve(res, caps) ==
  [kind |-> "resolve", caps |-> caps, step |-> 0, result |-> res,
   error |-> Err(<<>>, "")]
HsReject(message, caps) ==
  [kind |-> "reject", caps |-> caps, step |-> 0, result |-> Unknown(<<>>),
   error |-> Err(message, "")]

TlsRequired == Unknown(<<"smtp_tls_required">>)

\* cfg.requireTls && !hasStartTls
TlsMissingIgnored(requireTls, hasStartTls) == FALSE
TlsMissing(requireTls, hasStartTls) == requireTls /\ ~hasStartTls
\* hasStartTls and cfg.requireTls: the upgrade is not implemented
TlsUpgradeAssumed(requireTls, hasStartTls) == FALSE
TlsUpgradeMissing(requireTls, hasStartTls) == hasStartTls /\ requireTls

HandleLine(st, line, caps, requireTls) ==
  LET code == extractSmtpCode(line)
      caps1 == IF /\ st = 1 /\ code = 250 /\ Len(line) > 4
                  /\ Capability(line) # <<>>
               THEN caps \cup {Capability(line)} ELSE caps
      hasStartTls == Str.StartTls \in caps1
  IN IF line = <<>> THEN HsSkip(caps)
     ELSE IF Len(line) >= 4 /\ line[4] = "-"
     THEN HsSkip(IF st = 1 /\ Capability(line) # <<>>
                 THEN caps \cup {Capability(line)} ELSE caps)
     ELSE IF st = 0
     THEN IF code # 220
          THEN HsReject(Str.UnexpectedGreeting \o line, caps1)
          ELSE HsNext(1, caps1)
     ELSE IF st = 1
     THEN IF code = 530 THEN HsResolve(TlsRequired, caps1)
          ELSE IF code # 250 THEN HsReject(Str.EhloRejected \o line, caps1)
          ELSE IF TlsMissing(requireTls, hasStartTls)
          THEN HsResolve(TlsRequired, caps1)
          ELSE IF TlsUpgradeMissing(requireTls, hasStartTls)
          THEN HsResolve(TlsRequired, caps1)
          ELSE HsNext(3, caps1)
     ELSE IF st = 3
     THEN IF code = 530 THEN HsResolve(TlsRequired, caps1)
          ELSE IF code # 250 THEN HsReject(Str.MailFromRejected \o line, caps1)
          ELSE HsNext(4, caps1)
     ELSE HsResolve(interpretSmtpCode(code, line), caps1)

\* The 'data' handler on one chunk of complete lines: the lines are handled
\* in turn until one resolves or rejects the handshake
RECURSIVE HandleData(_, _, _, _)
HandleData(st, lines, caps, requireTls) ==
  IF lines = <<>> THEN HsNext(st, caps)
  ELSE LET h == HandleLine(st, Head(lines), caps, requireTls)
       IN IF h.kind = "skip"
          THEN HandleData(st, Tail(lines), h.caps, requireTls)
          ELSE IF h.kind = "next"
          THEN HandleData(h.step, Tail(lines), h.caps, requireTls)
          ELSE h

----------------------------------------------------------------------------
(* validateSmtp: the orchestrator, one invocation.  `orch` holds the locals *)
(* of validateSmtp, validateSmtpWithRetry and validateSmtpSingle; an action *)
(* is one event (a resolver answer, a throttle outcome, a chunk of data, a  *)
(* timer, a socket event) together with all the code that runs until the   *)
(* next await.                                                             *)

NoMxResult ==
  [smtpStatus |-> "invalid", reasonCodes |-> <<"no_mx_records", "smtp_invalid">>]
CatchAllDomain ==
  [smtpStatus |-> "catch_all", reasonCodes |-> <<"smtp_catch_all">>]
AllMxFailed == Unknown(<<"smtp_mx_all_failed", "smtp_connection_failed">>)
RetriesExceeded == Unknown(<<"smtp_connection_failed", "smtp_timeout">>)
OuterCatch == Unknown(<<"smtp_connection_failed">>)

\* What validateSmtpSingle hands to its caller: a result, or an exception
Returned(res) == [kind |-> "result", result |-> res]
Thrown == [kind |-> "throw", result |-> NoResult]

Mx(exchange, priority) == [exchange |-> exchange, priority |-> priority]

\* What validateMx can answer: the record lists of the resolver or the cache
MxLists ==
  { <<Mx("a", 10)>>,
    <<Mx("b", 20), Mx("a", 10)>>,
    <<Mx("", 5), Mx("a", 10)>>,
    <<Mx("a", 10), Mx("b", 10), Mx("c", 20)>> }

\* MxValidationResult, or an exception out of validateMx
MxResults ==
  {[threw |-> FALSE, domainHasMx |-> TRUE, defined |-> TRUE, mxRecords |-> l] :
     l \in MxLists}
  \cup {[threw |-> FALSE, domainHasMx |-> FALSE, defined |-> TRUE,
         mxRecords |-> <<>>],
        [threw |-> FALSE, domainHasMx |-> FALSE, defined |-> FALSE,
         mxRecords |-> <<>>],
        [threw |-> TRUE, domainHasMx |-> FALSE, defined |-> FALSE,
         mxRecords |-> <<>>]}

\* Array.prototype.sort((a, b) => a.priority - b.priority): stable
RECURSIVE InsertByPriority(_, _)
InsertByPriority(sorted, r) ==
  IF sorted = <<>> THEN <<r>>
  ELSE IF sorted[Len(sorted)].priority <= r.priority THEN Append(sorted, r)
  ELSE Append(InsertByPriority(SubSeq(sorted, 1, Len(sorted) - 1), r),
              sorted[Len(sorted)])
RECURSIVE SortByPriority(_)
SortByPriority(recs) ==
  IF recs = <<>> THEN <<>>
  ELSE InsertByPriority(SortByPriority(SubSeq(recs, 1, Len(recs) - 1)),
                        recs[Len(recs)])

\* The orders the Fisher-Yates shuffles of the groups of equal priority can
\* leave: every arrangement of the records that is sorted by priority
ShufflesAcrossPriorities(sorted) ==
  {q \in [1..Len(sorted) -> {sorted[i] : i \in 1..Len(sorted)}] :
     {q[i] : i \in 1..Len(sorted)} = {sorted[i] : i \in 1..Len(sorted)}}
Shuffles(sorted) ==
  {q \in [1..Len(sorted) -> {sorted[i] : i \in 1..Len(sorted)}] :
     /\ {q[i] : i \in 1..Len(sorted)} = {sorted[i] : i \in 1..Len(sorted)}
     /\ \A i, j \in 1..Len(sorted) : i < j => q[i].priority <= q[j].priority}

\* sortedMx.slice(0, cfg.maxMxAttempts)
Slice(recs, n) == SubSeq(recs, 1, Min(Len(recs), n))

\* The first index from i on whose exchange is not empty (Len + 1: none)
NextNonEmpty(mx, i) ==
  IF \E j \in i..Len(mx) : mx[j].exchange # ""
  THEN CHOOSE j \in i..Len(mx) :
         /\ mx[j].exchange # ""
         /\ \A k \in i..(j - 1) : mx[k].exchange = ""
  ELSE Len(mx) + 1

\* validateSmtpSingle is called: it awaits acquireSlot
StartSingle(o, phase, i, att) ==
  [o EXCEPT !.pc = "acquire", !.phase = phase, !.mxi = i, !.attempt = att]

\* validateSmtp returns res
Finish(o, res) == [o EXCEPT !.pc = "done", !.result = res]

\* The sweep loop from index i on
SweepFrom(o, mx, i) ==
  IF NextNonEmpty(mx, i) > Len(mx)
  THEN Finish([o EXCEPT !.phase = "real"], AllMxFailed)
  ELSE StartSingle([o EXCEPT !.lastResult = NoResult], "real",
                   NextNonEmpty(mx, i), 0)

\* The catch-all loop from index i on
ProbeFrom(o, mx, i) ==
  IF NextNonEmpty(mx, i) > Len(mx)
  THEN SweepFrom(o, mx, 1)
  ELSE StartSingle(o, "probe", NextNonEmpty(mx, i), 0)

\* detectCatchAll, after validateSmtpSingle has returned or thrown
DetectCatchAllUnsafe(outcome) ==
  IF outcome.kind = "throw" THEN "no"
  ELSE IF outcome.result.smtpStatus = "valid" THEN "yes"
  ELSE "no"
DetectCatchAllAcceptIsNo(outcome) ==
  IF outcome.kind = "throw" THEN "inconclusive"
  ELSE IF outcome.result.smtpStatus \in {"valid", "invalid"} THEN "no"
  ELSE "inconclusive"
detectCatchAll(outcome) ==
  IF outcome.kind = "throw" THEN "inconclusive"
  ELSE IF outcome.result.smtpStatus = "valid" THEN "yes"
  ELSE IF outcome.result.smtpStatus = "invalid" THEN "no"
  ELSE "inconclusive"

\* The catch-all loop, after detectCatchAll has answered for exchanger mxi
AfterProbe(o, mx, outcome) ==
  LET o1 == [o EXCEPT !.catchAllResult = detectCatchAll(outcome)]
  IN IF o1.catchAllResult = "yes" THEN Finish(o1, CatchAllDomain)
     ELSE IF o1.catchAllResult = "no" THEN SweepFrom(o1, mx, 1)
     ELSE ProbeFrom(o1, mx, o.mxi + 1)

\* validateSmtpWithRetry: a result it returns at once
RetryAccepts(status) == status \in {"valid", "invalid", "catch_all"}
\* validateSmtp: a result of the sweep it returns at once
SweepAcceptsOnlyValid(status) == status = "valid"
SweepAccepts(status) == status \in {"valid", "invalid", "catch_all"}

\* Array.prototype.join
RECURSIVE join(_, _)
join(parts, separator) ==
  IF parts = <<>> THEN ""
  ELSE IF Len(parts) = 1 THEN parts[1]
  ELSE parts[1] \o separator \o join(Tail(parts), separator)

\* object[key] = value
Put(object, key, value) ==
  [k \in DOMAIN object \cup {key} |-> IF k = key THEN value ELSE object[k]]

\* failureReasons[mx.exchange] = result.reasonCodes.join(', ')
ForgetFailureReason(o, mx, res) == o
RecordFailureReason(o, mx, res) ==
  [o EXCEPT !.failureReasons =
              Put(@, mx[o.mxi].exchange, join(res.reasonCodes, ", "))]

\* The sweep loop, after validateSmtpWithRetry has returned res for mxi
AfterRetry(o, mx, res) ==
  IF SweepAccepts(res.smtpStatus) THEN Finish(o, res)
  ELSE SweepFrom(RecordFailureReason(o, mx, res), mx, o.mxi + 1)

\* The exchangers contacted so far, once the caller has gone from o1 to o2:
\* a call of validateSmtpSingle for another exchanger, or in another loop,
\* adds its exchanger
Visit(v, o1, o2, mx) ==
  IF o2.pc = "acquire" /\ (o1.phase # o2.phase \/ o1.mxi # o2.mxi)
  THEN Append(v, [phase |-> o2.phase, mx |-> mx[o2.mxi]])
  ELSE v

\* The releaseSlot calls validateSmtpSingle makes once acquireSlot has
\* returned: the one of its finally block
ReleaseCallsOnReturnOnly(record) == IF record = "success" THEN 1 ELSE 0
ReleaseCalls(record) == 1

\* validateSmtpWithRetry, after validateSmtpSingle has returned or thrown
AfterAttempt(o, mx, outcome, softRetryLimit) ==
  IF outcome.kind = "result"
  THEN IF RetryAccepts(outcome.result.smtpStatus)
       THEN AfterRetry(o, mx, outcome.result)
       ELSE IF /\ outcome.result.smtpStatus = "temporarily_unavailable"
               /\ o.attempt < softRetryLimit
       THEN [o EXCEPT !.pc = "retrySleep", !.lastResult = outcome.result]
       ELSE AfterRetry(
              [o EXCEPT !.lastResult = outcome.result], mx,
              [outcome.result EXCEPT
                 !.reasonCodes = Append(@, "smtp_soft_fails_exceeded")])
  ELSE IF o.attempt < softRetryLimit
       THEN [o EXCEPT !.pc = "retrySleep"]
       ELSE AfterRetry(o, mx, RetriesExceeded)

\* The caller of validateSmtpSingle goes on
AfterSingle(o, mx, outcome, softRetryLimit) ==
  IF o.phase = "probe" THEN AfterProbe(o, mx, outcome)
  ELSE AfterAttempt(o, mx, outcome, softRetryLimit)

\* The lines a server sends as its final answer in each phase
LinesAt(st) ==
  IF st = 0 THEN {Line.Banner220, Line.Banner554}
  ELSE IF st = 1 THEN {Line.Ehlo250, Line.EhloStartTls, Line.Ehlo530, Line.Ehlo502}
  ELSE IF st = 3 THEN {Line.Mail250, Line.Mail530, Line.Mail451}
  ELSE {Line.Rcpt250, Line.Rcpt550, Line.Rcpt451, Line.RcptCatchAll, Line.Rcpt354}

SocketErrors ==
  {Err(Str.ConnectRefused, "ECONNREFUSED"), Err(Str.ReadReset, "ECONNRESET")}

\* validateMx answers (or throws); validateSmtp sorts, shuffles and slices
\* the records and enters the catch-all loop
ResolveMx(mx) ==
  /\ orch.pc = "start"
  /\ IF mx.threw
     THEN /\ orch' = Finish(orch, OuterCatch)
          /\ UNCHANGED mxToTry
     ELSE IF ~mx.domainHasMx \/ ~mx.defined \/ Len(mx.mxRecords) = 0
     THEN /\ orch' = Finish(orch, NoMxResult)
          /\ UNCHANGED mxToTry
     ELSE \E order \in (IF scfg.randomizeSamePriority
                        THEN Shuffles(SortByPriority(mx.mxRecords))
                        ELSE {SortByPriority(mx.mxRecords)}) :
            /\ mxToTry' = Slice(order, scfg.maxMxAttempts)
            /\ orch' = ProbeFrom([orch EXCEPT !.mxRecords = mx.mxRecords],
                                 Slice(order, scfg.maxMxAttempts), 1)
  /\ visited' = Visit(visited, orch, orch', mxToTry')
  /\ releaseCalls' = 0
  /\ UNCHANGED <<scfg, hsVars, slotHeld, lastRecord, probeOutcomes,
                 rcptRealSent, firstDefinitive, contactedAfter, seen,
                 smtpFrame>>

\* acquireSlot returns: the socket is created, the banner timer set and the
\* connection started
AcquireGranted ==
  /\ orch.pc = "acquire"
  /\ orch' = [orch EXCEPT !.pc = "handshake"]
  /\ step' = 0
  /\ currentTimeout' = TRUE
  /\ ehloCapabilities' = {}
  /\ slotHeld' = TRUE
  /\ contactedAfter' = (contactedAfter \/ firstDefinitive # "none")
  /\ releaseCalls' = 0
  /\ UNCHANGED <<mxToTry, scfg, lastRecord, probeOutcomes, rcptRealSent,
                 firstDefinitive, seen, visited, smtpFrame>>

\* acquireSlot throws its timeout: validateSmtpSingle has no try around it,
\* the caller's catch takes over
AcquireTimeout ==
  /\ orch.pc = "acquire"
  /\ orch' = AfterSingle(orch, mxToTry, Thrown, scfg.softRetryLimit)
  /\ probeOutcomes' = IF orch.phase = "probe"
                      THEN probeOutcomes \cup {"error"} ELSE probeOutcomes
  /\ seen' = seen \cup {"acquire_timeout"}
  /\ releaseCalls' = 0
  /\ visited' = Visit(visited, orch, orch', mxToTry)
  /\ UNCHANGED <<mxToTry, scfg, hsVars, slotHeld, lastRecord, rcptRealSent,
                 firstDefinitive, contactedAfter, smtpFrame>>

\* The handshake settles: validateSmtpSingle records, releases the slot,
\* destroys the socket and returns res to its caller, which goes on
Settle(res, record) ==
  /\ orch' = AfterSingle(orch, mxToTry, Returned(res), scfg.softRetryLimit)
  /\ step' = 0
  /\ currentTimeout' = FALSE
  /\ ehloCapabilities' = {}
  /\ slotHeld' = FALSE
  /\ lastRecord' = record
  /\ probeOutcomes' = IF orch.phase = "probe"
                      THEN probeOutcomes \cup {res.smtpStatus}
                      ELSE probeOutcomes
  /\ firstDefinitive' =
       IF /\ orch.phase = "real" /\ firstDefinitive = "none"
          /\ res.smtpStatus \in {"valid", "invalid", "catch_all"}
       THEN res.smtpStatus ELSE firstDefinitive
  /\ releaseCalls' = ReleaseCalls(record)
  /\ visited' = Visit(visited, orch, orch', mxToTry)

\* The handshake rejects with error: the catch of validateSmtpSingle
Reject(error) ==
  Settle(mapErrorToResult(error),
         IF isHardBlockError(error) THEN "severe" ELSE "failure")

\* A 'data' event with one complete line
ServerLine(line) ==
  /\ orch.pc = "handshake"
  /\ currentTimeout
  /\ line \in LinesAt(step)
  /\ LET h == HandleData(step, <<line>>, ehloCapabilities, scfg.requireTls)
     IN IF h.kind = "next"
        THEN /\ step' = h.step
             /\ ehloCapabilities' = h.caps
             /\ currentTimeout' = TRUE
             /\ rcptRealSent' =
                  (rcptRealSent \/ (h.step = 4 /\ orch.phase = "real"))
             /\ releaseCalls' = 0
             /\ UNCHANGED <<orch, slotHeld, lastRecord, probeOutcomes,
                            firstDefinitive, visited>>
        ELSE /\ IF h.kind = "resolve" THEN Settle(h.result, "success")
                ELSE Reject(h.error)
             /\ UNCHANGED rcptRealSent
  /\ UNCHANGED <<mxToTry, scfg, contactedAfter, seen, smtpFrame>>

\* The phase timer fires: the socket is destroyed, the handshake rejects
PhaseTimeout ==
  /\ orch.pc = "handshake"
  /\ currentTimeout
  /\ Reject(Err(PhaseOf(step), ""))
  /\ UNCHANGED <<mxToTry, scfg, rcptRealSent, contactedAfter, seen, smtpFrame>>

\* The socket emits 'error'
SocketError(error) ==
  /\ orch.pc = "handshake"
  /\ Reject(error)
  /\ UNCHANGED <<mxToTry, scfg, rcptRealSent, contactedAfter, seen, smtpFrame>>

\* The server closes the connection ('end'): before the RCPT step the
\* handshake rejects; at the RCPT step the timer is cleared and the promise
\* stays pending
SocketEnd ==
  /\ orch.pc = "handshake"
  /\ currentTimeout
  /\ IF step < 4
     THEN /\ Reject(Err(Str.ClosedPrematurely, ""))
          /\ UNCHANGED seen
     ELSE /\ currentTimeout' = FALSE
          /\ seen' = seen \cup {"end_at_rcpt"}
          /\ releaseCalls' = 0
          /\ UNCHANGED <<orch, step, ehloCapabilities, slotHeld, lastRecord,
                         probeOutcomes, firstDefinitive, visited>>
  /\ UNCHANGED <<mxToTry, scfg, rcptRealSent, contactedAfter, smtpFrame>>

\* timeoutPromise(cfg.overallTimeoutMs) is pending beside the handshake
OverallNeverArmed == FALSE
OverallArmed == orch.pc = "handshake"

\* The overall timer wins the race
OverallTimeout ==
  /\ OverallArmed
  /\ Reject(Err(Str.OperationTimeout, ""))
  /\ UNCHANGED <<mxToTry, scfg, rcptRealSent, contactedAfter, seen, smtpFrame>>

\* sleep(delay) of validateSmtpWithRetry is over: the next attempt
RetryWake ==
  /\ orch.pc = "retrySleep"
  /\ orch' = StartSingle(orch, "real", orch.mxi, orch.attempt + 1)
  /\ releaseCalls' = 0
  /\ UNCHANGED <<mxToTry, scfg, hsVars, slotHeld, lastRecord, probeOutcomes,
                 rcptRealSent, firstDefinitive, contactedAfter, seen,
                 visited, smtpFrame>>

\* The configurations validateSmtp is called with
MaxMxAttempts == 2
MaxSoftRetry == 1
SmtpConfigs ==
  [maxMxAttempts : 1..MaxMxAttempts, softRetryLimit : 0..MaxSoftRetry,
   randomizeSamePriority : BOOLEAN, requireTls : BOOLEAN]

InitSmtp ==
  /\ now = 1000
  /\ config \in Configs
  /\ config.maxGlobalConcurrency = 1
  /\ MemIdle
  /\ RedisIdle
  /\ RcptIdle
  /\ HsIdle
  /\ OrchIdle
  /\ HotIdle
  /\ SingleIdle
  /\ scfg \in SmtpConfigs

NextSmtp ==
  \/ \E mx \in MxResults : ResolveMx(mx)
  \/ AcquireGranted
  \/ AcquireTimeout
  \/ \E line \in UNION {LinesAt(st) : st \in {0, 1, 3, 4}} : ServerLine(line)
  \/ PhaseTimeout
  \/ \E error \in SocketErrors : SocketError(error)
  \/ SocketEnd
  \/ OverallTimeout
  \/ RetryWake

\* What the event loop has pending and will run: the answer of validateMx,
\* the outcome of acquireSlot (bounded by its maxWaitTime), the timers
Pending ==
  \/ \E mx \in MxResults : ResolveMx(mx)
  \/ AcquireGranted
  \/ AcquireTimeout
  \/ PhaseTimeout
  \/ OverallTimeout
  \/ RetryWake
SmtpFairness == WF_vars(Pending)

SpecSmtp == InitSmtp /\ [][NextSmtp]_vars

\* The invocations checked under the fairness above: the defaults of the
\* environment, with one exchanger tried and one soft retry, or with two
\* exchangers tried and no soft retry
LiveConfigs ==
  {[DefaultSmtpConfig EXCEPT !.maxMxAttempts = 1],
   [DefaultSmtpConfig EXCEPT !.softRetryLimit = 0]}

InitSmtpLive ==
  /\ InitSmtp
  /\ scfg \in LiveConfigs

SpecSmtpLive == InitSmtpLive /\ [][NextSmtp]_vars /\ SmtpFairness

----------------------------------------------------------------------------
(* performSmtpHandshake alone: a server that greets or refuses, accepts     *)
(* EHLO, with or without STARTTLS among its capabilities, accepts MAIL FROM *)
(* and then answers RCPT TO with any line, in one chunk or line by line.    *)

RcptCodes ==
  {99, 100, 199, 200, 250, 299, 300, 354, 399, 400, 421, 450, 499, 500, 550,
   599, 600, 999}

\* Response texts, each with whether it carries catch-all wording
RcptTexts ==
  {[text |-> Text.Ok, indicated |-> FALSE],
   [text |-> Text.NoSuchUser, indicated |-> FALSE],
   [text |-> Text.TooManyRetry, indicated |-> FALSE],
   [text |-> Text.CatchAll, indicated |-> TRUE],
   [text |-> Text.CatchAllUpper, indicated |-> TRUE],
   [text |-> Text.AcceptAll, indicated |-> TRUE],
   [text |-> Text.AcceptsAll, indicated |-> TRUE]}

\* The three digits a server writes for a code
CodeChars(n) ==
  <<Digits[(n \div 100) + 1], Digits[((n \div 10) % 10) + 1],
    Digits[(n % 10) + 1]>>
CodeLine(n, text) == CodeChars(n) \o <<" ">> \o text

\* The final RCPT lines: a code and a text, a code alone, a text alone
Sents ==
  {[code |-> n, indicated |-> t.indicated, final |-> CodeLine(n, t.text)] :
     n \in RcptCodes, t \in RcptTexts}
  \cup {[code |-> n, indicated |-> FALSE, final |-> CodeChars(n)] :
          n \in RcptCodes}
  \cup {[code |-> 0, indicated |-> t.indicated, final |-> t.text] :
          t \in RcptTexts}

\* Lines of a multi-line response that may precede the final line
Continuations == {<<>>, <<Line.ContCatchAll>>, <<Line.ContNoSuchUser>>}

\* The responses of a server that accepts EHLO, each with whether it
\* advertises STARTTLS
EhloResponses ==
  {[lines |-> <<Line.Ehlo250>>, starttls |-> FALSE],
   [lines |-> <<Line.EhloStartTls>>, starttls |-> TRUE],
   [lines |-> <<Line.ContStartTls, Line.Ehlo250>>, starttls |-> TRUE],
   [lines |-> <<Line.ContSize, Line.Ehlo250>>, starttls |-> FALSE]}

\* What the server of a session sends: s, after the EHLO response e
WithEhlo(s, e) ==
  [code |-> s.code, indicated |-> s.indicated, final |-> s.final,
   ehlo |-> e.lines, starttls |-> e.starttls]

\* The session of the server, and the two ways it reaches the handler
Session(banner, cont, s) ==
  <<banner>> \o s.ehlo \o <<Line.Mail250>> \o cont \o <<s.final>>
Deliveries(lines) == {<<lines>>, [i \in 1..Len(lines) |-> <<lines[i]>>]}

InitRcpt ==
  /\ now = 1000
  /\ config \in Configs
  /\ config.maxGlobalConcurrency = 1
  /\ MemIdle
  /\ RedisIdle
  /\ OrchIdle
  /\ HotIdle
  /\ SingleIdle
  /\ scfg \in {DefaultSmtpConfig, [DefaultSmtpConfig EXCEPT !.requireTls = TRUE]}
  /\ step = 0
  /\ currentTimeout = TRUE
  /\ ehloCapabilities = {}
  /\ hsOutcome = NoResult
  /\ \E s \in Sents, e \in EhloResponses, cont \in Continuations,
        banner \in LinesAt(0) :
       /\ sent = WithEhlo(s, e)
       /\ events \in Deliveries(Session(banner, cont, sent))

\* A 'data' event: the handler runs on the chunk
DataEvent ==
  /\ events # <<>>
  /\ hsOutcome = NoResult
  /\ LET h == HandleData(step, Head(events), ehloCapabilities, scfg.requireTls)
     IN IF h.kind = "next"
        THEN /\ step' = h.step
             /\ ehloCapabilities' = h.caps
             /\ events' = Tail(events)
             /\ UNCHANGED <<currentTimeout, hsOutcome>>
        ELSE /\ hsOutcome' = IF h.kind = "resolve" THEN h.result
                             ELSE mapErrorToResult(h.error)
             /\ events' = <<>>
             /\ currentTimeout' = FALSE
             /\ ehloCapabilities' = h.caps
             /\ UNCHANGED step
  /\ UNCHANGED <<sent, rcptFrame>>

NextRcpt == DataEvent

SpecRcpt == InitRcpt /\ [][NextRcpt]_vars

----------------------------------------------------------------------------
(* Claims on validateSmtp and its handshake *)

\* C6: every invocation of validateSmtp eventually completes, and stays
\* completed, with one result whose verdict is one of the five verdicts,
\* whatever the resolver, the server and the throttle do (silence, a close in
\* mid-session, a slot-acquisition timeout); there is no other way out.
C6_AlwaysReturnsVerdict ==
  <>[](orch.pc = "done" /\ orch.result.smtpStatus \in Verdicts)

\* C6, witness: an invocation has returned a verdict after a slot-acquisition
\* timeout and a close of the connection at the RCPT step.
C6_Witness ==
  /\ orch.pc = "done"
  /\ orch.result.smtpStatus \in Verdicts
  /\ seen = {"acquire_timeout", "end_at_rcpt"}

\* The verdict the code and the wording of a final RCPT line call for
ExpectedVerdict(s) ==
  IF s.code \in 200..299
  THEN IF s.indicated THEN "catch_all" ELSE "valid"
  ELSE IF s.code \in 400..499 THEN "temporarily_unavailable"
  ELSE IF s.code \in 500..599 THEN "invalid"
  ELSE "unknown"

NonDefinitive == {"temporarily_unavailable", "unknown", "error"}

\* C8: once the probing loop is over, the catch-all determination is 'no'
\* only if some exchanger answered the probe with invalid, and it is
\* 'inconclusive' if every probe came to a non-definitive outcome.
C8_InconclusiveNeverNo ==
  orch.phase = "real" =>
    /\ orch.catchAllResult = "no" => "invalid" \in probeOutcomes
    /\ probeOutcomes \subseteq NonDefinitive =>
         orch.catchAllResult = "inconclusive"

\* C8, witness: two exchangers were probed, one raised an error and one was
\* temporarily unavailable, and the sweep has started.
C8_Witness ==
  /\ orch.phase = "real"
  /\ probeOutcomes = {"error", "temporarily_unavailable"}
  /\ orch.catchAllResult = "inconclusive"

\* C9: once an exchanger has accepted the probe address, validateSmtp has
\* returned catch_all and no RCPT TO for the real address was sent.
C9_CatchAllShortCircuits ==
  "valid" \in probeOutcomes =>
    /\ orch.pc = "done"
    /\ orch.result.smtpStatus = "catch_all"
    /\ ~rcptRealSent

\* C9, witness: the second exchanger accepted the probe after the first one
\* was inconclusive.
C9_Witness ==
  /\ "valid" \in probeOutcomes
  /\ "temporarily_unavailable" \in probeOutcomes
  /\ orch.pc = "done"
  /\ orch.mxi = 2

\* C10: once an attempt of the sweep has come to valid, invalid or
\* catch_all, validateSmtp has returned that verdict, and no exchanger is
\* contacted afterwards.
C10_FirstDefinitiveWins ==
  firstDefinitive # "none" =>
    /\ orch.pc = "done"
    /\ orch.result.smtpStatus = firstDefinitive
    /\ ~contactedAfter

\* C10, witness: the first exchanger of two gave invalid on the retry of a
\* soft failure; the second exchanger was never in the sweep.
C10_Witness ==
  /\ firstDefinitive = "invalid"
  /\ orch.attempt = 1
  /\ orch.mxi = 1
  /\ Len(mxToTry) = 2
  /\ orch.pc = "done"

\* C11: in the sweep, another attempt on the same exchanger is started only
\* after an attempt that came back with temporarily_unavailable, and only
\* while fewer than softRetryLimit retries have been made; any other outcome,
\* an error raised by the attempt included, ends the attempts on it.
C11_RetryOnlyAfterTemporary ==
  [][(orch'.pc = "retrySleep" /\ orch.pc # "retrySleep") =>
       /\ orch.pc = "handshake"
       /\ orch'.lastResult # NoResult
       /\ orch'.lastResult.smtpStatus = "temporarily_unavailable"
       /\ orch.attempt < scfg.softRetryLimit]_vars

\* C12: when the sweep had one exchanger to try and its last answer to RCPT TO
\* for the real address was a 4xx (every attempt before it on that exchanger
\* was retried, so none had another answer to RCPT TO), validateSmtp returns
\* the verdict temporarily_unavailable once the retries are used up.
C12_SoftFailureSurfaces ==
  (/\ orch.pc = "done"
   /\ orch.phase = "real"
   /\ Len(mxToTry) = 1
   /\ orch.attempt = scfg.softRetryLimit
   /\ lastRecord = "success"
   /\ orch.lastResult # NoResult
   /\ orch.lastResult.smtpStatus = "temporarily_unavailable")
  => orch.result.smtpStatus = "temporarily_unavailable"

\* The exchangers validateSmtpWithRetry was called for in the sweep
SweepVisited ==
  {visited[i].mx.exchange :
     i \in {k \in 1..Len(visited) : visited[k].phase = "real"}}

\* Object.entries(failureReasons): the entries of the diagnostic
DiagnosticEntries(o) ==
  {<<h, o.failureReasons[h]>> : h \in DOMAIN o.failureReasons}

\* C13: when the sweep is over and no attempt of it came to a definitive
\* result, validateSmtp has returned unknown (smtp_mx_all_failed), and the
\* map its diagnostic is made of has one entry, with a reason, for each
\* exchanger attempted in the sweep and for no other.
C13_AllFailedCarriesReasons ==
  (orch.pc = "done" /\ orch.phase = "real" /\ firstDefinitive = "none") =>
    /\ orch.result = AllMxFailed
    /\ DOMAIN orch.failureReasons = SweepVisited
    /\ Cardinality(DiagnosticEntries(orch)) = Cardinality(SweepVisited)
    /\ \A e \in DiagnosticEntries(orch) : e[2] # ""

\* C13, witness: two exchangers were attempted in the sweep, none gave a
\* definitive result, and the map has an entry for each, with different
\* reasons.
C13_Witness ==
  /\ orch.pc = "done"
  /\ orch.result = AllMxFailed
  /\ SweepVisited = {"a", "b"}
  /\ DOMAIN orch.failureReasons = {"a", "b"}
  /\ orch.failureReasons["a"] # orch.failureReasons["b"]

\* The records of a list
Records(recs) == {recs[i] : i \in 1..Len(recs)}

\* C14: the exchangers to try are as many of the resolver's records as
\* maxMxAttempts allows, with the priorities of the first entries of the list
\* sorted by priority, in that order (exactly those entries when
\* randomizeSamePriority is off); every exchanger contacted is one of them;
\* within each of the two loops they are contacted in non-decreasing priority
\* order, and none is contacted unless every named exchanger of strictly
\* smaller priority was contacted before it in that loop.
C14_PriorityOrderKept ==
  LET sorted == SortByPriority(orch.mxRecords)
  IN /\ Len(mxToTry) = Min(Len(sorted), scfg.maxMxAttempts)
     /\ \A i \in 1..Len(mxToTry) :
          /\ mxToTry[i].priority = sorted[i].priority
          /\ mxToTry[i] \in Records(orch.mxRecords)
          /\ \A j \in 1..Len(mxToTry) : i # j => mxToTry[i] # mxToTry[j]
     /\ ~scfg.randomizeSamePriority =>
          mxToTry = Slice(sorted, scfg.maxMxAttempts)
     /\ \A i \in 1..Len(visited) :
          /\ visited[i].mx \in Records(mxToTry)
          /\ \A j \in 1..Len(visited) :
               (i < j /\ visited[i].phase = visited[j].phase) =>
                 visited[i].mx.priority <= visited[j].mx.priority
          /\ \A r \in Records(orch.mxRecords) :
               (r.priority < visited[i].mx.priority /\ r.exchange # "") =>
                 \E j \in 1..(i - 1) :
                   /\ visited[j].phase = visited[i].phase
                   /\ visited[j].mx = r

\* C14, witness: for the records a (10), b (10) and c (20) with two attempts
\* allowed and randomization on, b was shuffled before a; the sweep went to
\* b and then to a, and c is not among the exchangers to try.
C14_Witness ==
  /\ orch.mxRecords = <<Mx("a", 10), Mx("b", 10), Mx("c", 20)>>
  /\ scfg.maxMxAttempts = 2
  /\ scfg.randomizeSamePriority
  /\ mxToTry = <<Mx("b", 10), Mx("a", 10)>>
  /\ \E i \in 1..(Len(visited) - 1) :
       /\ visited[i] = [phase |-> "real", mx |-> Mx("b", 10)]
       /\ visited[i + 1] = [phase |-> "real", mx |-> Mx("a", 10)]

\* C16: a step in which an attempt that was granted its slot comes to its end
\* (a verdict, a handshake error, a phase timeout, the overall timeout) calls
\* releaseSlot exactly once; no other step calls it, the step in which
\* acquireSlot fails included; the slot is held exactly while the handshake
\* runs.
C16_ReleaseOncePerAcquire ==
  [][/\ releaseCalls' =
          IF orch.pc = "handshake" /\ orch'.pc # "handshake" THEN 1 ELSE 0
     /\ slotHeld' = (orch'.pc = "handshake")]_vars

\* C16, witness: after an attempt whose acquireSlot failed, an attempt that
\* was granted its slot has ended with a failure, and releaseSlot was called
\* once as it ended.
C16_Witness ==
  /\ "acquire_timeout" \in seen
  /\ lastRecord \in {"failure", "severe"}
  /\ releaseCalls = 1
  /\ ~slotHeld

\* C15: when requireTls is set and the response of the server to EHLO, all
\* its lines taken together, does not advertise STARTTLS, MAIL FROM is never
\* written (the handshake never goes beyond the EHLO step), and once the
\* response has been handled the handshake has ended with the verdict unknown
\* and the reason smtp_tls_required.
C15_TlsRequiredStopsBeforeMail ==
  (scfg.requireTls /\ sent # NoSent /\ ~sent.starttls) =>
    /\ step \in {0, 1}
    /\ (hsOutcome # NoResult /\ step = 1) => hsOutcome = TlsRequired
    /\ (events = <<>> /\ step = 1) => hsOutcome = TlsRequired

\* C15, witness: with requireTls set, the server has answered EHLO with
\* '250-SIZE 1000' and '250 mx hello', no STARTTLS; the handshake has ended
\* at the EHLO step with smtp_tls_required and the rest of the session was
\* never read.
C15_Witness ==
  /\ scfg.requireTls
  /\ sent.ehlo = <<Line.ContSize, Line.Ehlo250>>
  /\ step = 1
  /\ ehloCapabilities = {toUpperCase(<<"S", "I", "Z", "E", " ", "1", "0", "0", "0">>),
                         toUpperCase(<<"m", "x", " ", "h", "e", "l", "l", "o">>)}
  /\ hsOutcome = TlsRequired
  /\ events = <<>>

----------------------------------------------------------------------------
(* Claims on the in-memory store called directly *)

\* C17: with the in-memory store, whatever is called, releaseSlot for a host
\* that holds no slot included (a host never seen, a host with nothing in
\* flight, a slot released already), the concurrency counter of every host
\* and the global counter are at least 0.
C17_MemCountersNonNegative ==
  /\ globalConcurrency >= 0
  /\ \A h \in DOMAIN mxStates : mxStates[h].concurrency >= 0

\* C17, witness: mx1 was acquired and released, then mx2 was acquired, then
\* releaseSlot(mx1) was called again: mx1 stays at 0, and the global counter
\* is back at 0 while the slot of mx2 is held.
C17_Witness ==
  /\ pc[1] = "holding"
  /\ chost[1] = "mx2"
  /\ "mx1" \in DOMAIN mxStates
  /\ mxStates["mx1"].concurrency = 0
  /\ mxStates["mx1"].lastAttemptAt # 0
  /\ mxStates["mx2"].concurrency = 1
  /\ globalConcurrency = 0

\* C19: for every configured maxMxConcurrency of at least 1, the adaptive
\* ceiling of every host state is at least 1 and at most 5, whatever
\* acquireSlot, releaseSlot, recordSuccess and recordFailure calls were made.
C19_CeilingWithinRange ==
  config.maxMxConcurrency >= 1 =>
    \A h \in DOMAIN mxStates :
      /\ mxStates[h].maxConcurrency >= 1
      /\ mxStates[h].maxConcurrency <= HardCeiling

\* C19, witness: with maxMxConcurrency configured as 10 the host started at
\* 2 and thirteen successes in a row have raised its ceiling to 5.
C19_Witness ==
  /\ config.maxMxConcurrency = MaxConfiguredMxConcurrency
  /\ "mx1" \in DOMAIN mxStates
  /\ mxStates["mx1"].successCount = 13
  /\ mxStates["mx1"].maxConcurrency = HardCeiling

\* C20: on a host state that was fresh with ceiling 2, the fourth of four
\* recordFailure(host, true) calls in a row, with no other recordSuccess or
\* recordFailure between them, takes the ceiling from 2 to 1 and leaves a
\* penalty window that is active (now < penaltyUntil).
C20_FourSevereFailures ==
  [][\A h \in Hosts :
       (/\ config.maxMxConcurrency >= 2
        /\ severeRun[h] = 3
        /\ severeRun'[h] = 4) =>
         /\ mxStates[h].maxConcurrency = 2
         /\ mxStates'[h].maxConcurrency = 1
         /\ mxStates'[h].failures = 4
         /\ now' < mxStates'[h].penaltyUntil]_vars

\* C20, witness: four severe failures in a row have been recorded on a host
\* that started with ceiling 2; its ceiling is 1 and its penalty window is
\* active.
C20_Witness ==
  /\ config.maxMxConcurrency = 2
  /\ severeRun["mx1"] = 4
  /\ mxStates["mx1"].maxConcurrency = 1
  /\ now < mxStates["mx1"].penaltyUntil

----------------------------------------------------------------------------
(* Claims on the counters of the Redis store *)

\* C18: with the Redis store, the per-host concurrency counters and the
\* global concurrency counter held in Redis are never negative.
C18_RedisCountersNonNegative ==
  /\ GetNum(rGlobal) >= 0
  /\ \A h \in RHosts : GetNum(rMx[h]) >= 0

----------------------------------------------------------------------------
(* Claims on the penalty window *)

\* C21: after a recordFailure(host, true) at instant t has set a penalty
\* window of min(300000, 5000 * 2^failures) ms, no acquireSlot on the host is
\* granted before the end of that window, whatever successes, failures and
\* releases come in between.  A later severe failure overwrites penaltyUntil
\* with a window computed from the failure count of its time, which
\* successes have lowered in between: the window set first ends early.
C21_NoGrantDuringPenalty ==
  [][\A h \in Hosts : Held(h)' > Held(h) => now >= penaltyEnds[h]]_vars

----------------------------------------------------------------------------
(* Claims on the two stores side by side *)

\* C23: for the same sequence of acquireSlot, recordSuccess, recordFailure
\* and releaseSlot calls by one process, with the same limits and clock
\* readings, the in-memory store and the Redis store grant or block each
\* acquire alike and hold the same per-host concurrency, failure count,
\* success streak, adaptive ceiling and penalty expiry once the calls have
\* returned (here: once the Redis store's background work is over as well).
\* The keys of the Redis store expire, the fields of the in-memory store do
\* not, so this fails.
C23_BackendsAgree ==
  PairSettled =>
    /\ pc[Driver] = rpc[Driver]
    /\ \A h \in RHosts : MemView(h) = RedisView(h)

----------------------------------------------------------------------------
(* redis.ts, throttleState.ts, cache.ts and validateMx: the Redis           *)
(* connection, the hot swap of the throttle store and of the cache, the     *)
(* cache entry of one key (mx:<domain>) and the lookups that use it.        *)

\* setInterval(..., 5 * 60 * 1000) and DomainCache.DEFAULT_MX_TTL_MS
CleanupPeriodMs == 300000
DEFAULT_MX_TTL_MS == 600000

\* Calls a module makes through the exported throttleState
MaxProxyCalls == 2

\* The instants of the clock: module load, the first and the second tick of
\* the sweep timer, a default TTL after the load, and later
HotInstants == {1000, 301000, 601000, 602000}

\* The ttlMs a caller passes (0: none)
TtlChoices == {0, 300000}

\* What the key can hold: lists of MX records, sorted by priority, the
\* exchange names in lower case
CacheValues == {<<>>, <<Mx("a", 10)>>, <<Mx("a", 10), Mx("b", 20)>>}

hotFrame ==
  <<config, memVars, redisVars, hsVars, orchVars, rcptVars, storeHist,
    single>>

\* The once('ready') handlers of throttleState.ts and cache.ts have run
ReadyHandled == redisClient # "off" /\ ~readyHandlers

\* ---- InMemoryCache
\* get(key): the data, or null when the entry is missing or has expired
Miss == [hit |-> FALSE, data |-> <<>>]
MemGet(entry, t) ==
  IF entry.present /\ ~(t > entry.expiresAt)
  THEN [hit |-> TRUE, data |-> entry.data]
  ELSE Miss
\* get and cleanupExpired delete an entry that has expired
cleanupExpired(entry, t) ==
  IF entry.present /\ t > entry.expiresAt THEN NoEntry ELSE entry
\* set(key, value, ttlMs)
MemSet(value, ttlMs, t) ==
  [present |-> TRUE, data |-> value, expiresAt |-> t + ttlMs]

\* ---- DomainCache
\* const ttl = ttlMs || this.DEFAULT_MX_TTL_MS
DomainTtl(ttlMs) == IF ttlMs = 0 THEN DEFAULT_MX_TTL_MS ELSE ttlMs

\* ---- getFromRedis / setInRedis
RECURSIVE Decimal(_)
Decimal(n) ==
  IF n < 10 THEN Digits[n + 1]
  ELSE Decimal(n \div 10) \o Digits[(n % 10) + 1]

\* JSON.stringify of an MxRecord[]
JSONstringify(records) ==
  "[" \o join([i \in 1..Len(records) |->
                 "{\"exchange\":\"" \o records[i].exchange
                   \o "\",\"priority\":" \o Decimal(records[i].priority)
                   \o "}"], ",")
      \o "]"
\* JSON.parse of a text that JSON.stringify wrote
JSONparse(text) == CHOOSE v \in CacheValues : JSONstringify(v) = text

\* getFromRedis(key): null when the command fails, when the key is missing
\* and when its text is empty
getFromRedis(k, ok) ==
  IF ok /\ k.exp # -1 /\ k.v # ""
  THEN [hit |-> TRUE, data |-> JSONparse(k.v)]
  ELSE Miss

\* Math.ceil(ttlMs / 1000)
CeilSeconds(ttlMs) == (ttlMs + 999) \div 1000

\* client.set(key, serialized, 'EX', ttlSeconds), run at instant t
setInRedis(value, ttlSeconds, t) ==
  [v |-> JSONstringify(value), exp |-> t + ttlSeconds * 1000]

\* ---- RedisCache
\* get(key) once the reply to GET is there: the Redis value if there is one,
\* else the fallback's
RedisCacheGet(ok) ==
  IF getFromRedis(redisKey, ok).hit THEN getFromRedis(redisKey, ok)
  ELSE MemGet(fallback, now)
FallbackAfterGet(ok) ==
  IF getFromRedis(redisKey, ok).hit THEN fallback
  ELSE cleanupExpired(fallback, now)

\* ---- the connection and the hot swaps
\* What the ready handlers leave in throttleStateContainer.currentBackend and
\* in cleanupInterval
KeptBackend(backend) == backend
SwappedBackend(backend) == "redis"

KeptInterval(due) == due
ClearedInterval(due) == 0

\* The connection emits 'ready': RedisClient's handler runs, then, if they
\* are registered, the once('ready') handlers of the two modules
ReadyEvent ==
  /\ redisClient \in {"connecting", "down"}
  /\ redisClient' = "ready"
  /\ IF readyHandlers
     THEN /\ readyHandlers' = FALSE
          /\ throttleStateContainer' = SwappedBackend(throttleStateContainer)
          /\ cacheContainer' = "redis"
          /\ fallback' = NoEntry
          /\ cleanupInterval' = ClearedInterval(cleanupInterval)
     ELSE UNCHANGED <<readyHandlers, throttleStateContainer, cacheContainer,
                      fallback, cleanupInterval>>
  /\ UNCHANGED <<now, importer, memoryCache, redisKey, cacheCall, lastSet,
                 lastGet, mxVars, hotFrame>>

\* The connection is lost ('close')
CloseEvent ==
  /\ redisClient = "ready"
  /\ redisClient' = "down"
  /\ UNCHANGED <<now, readyHandlers, throttleStateContainer, cacheContainer,
                 cleanupInterval, importer, cacheVars, mxVars, hotFrame>>

\* A module imports throttleState: it holds the Proxy from then on
Import ==
  /\ importer.obtained = "no"
  /\ importer' = [importer EXCEPT
                    !.obtained = IF ReadyHandled THEN "after" ELSE "before"]
  /\ UNCHANGED <<now, redisClient, readyHandlers, throttleStateContainer,
                 cacheContainer, cleanupInterval, cacheVars, mxVars, hotFrame>>

\* The module calls a method of throttleState: the get trap takes the method
\* from throttleStateContainer.currentBackend and binds it to that store
ThrottleCall ==
  /\ importer.obtained # "no"
  /\ importer.calls < MaxProxyCalls
  /\ importer' = [importer EXCEPT !.calls = @ + 1,
                                  !.executedBy = throttleStateContainer]
  /\ UNCHANGED <<now, redisClient, readyHandlers, throttleStateContainer,
                 cacheContainer, cleanupInterval, cacheVars, mxVars, hotFrame>>

\* The sweep timer fires: the callback sweeps the backend if it is still the
\* InMemoryCache
Sweep ==
  /\ cleanupInterval # 0
  /\ cleanupInterval <= now
  /\ cleanupInterval' = cleanupInterval + CleanupPeriodMs
  /\ memoryCache' = IF cacheContainer = "memory"
                    THEN cleanupExpired(memoryCache, now)
                    ELSE memoryCache
  /\ UNCHANGED <<now, redisClient, readyHandlers, throttleStateContainer,
                 cacheContainer, importer, fallback, redisKey, cacheCall,
                 lastSet, lastGet, mxVars, hotFrame>>

\* Time passes; the Redis key is gone once its TTL has run out
HotAdvance ==
  /\ \E t \in HotInstants :
       /\ t > now
       /\ now' = t
       /\ redisKey' = IF redisKey.exp > 0 /\ redisKey.exp <= t THEN NoText
                      ELSE redisKey
  /\ UNCHANGED <<swapVars, memoryCache, fallback, cacheCall, lastSet, lastGet,
                 mxVars, hotFrame>>

\* ---- calls on the exported cache
\* cache.setMxInCache(domain, value, ttlMs)
CacheSet(value, ttlMs) ==
  /\ cacheCall.kind = "none"
  /\ IF cacheContainer = "memory"
     THEN /\ memoryCache' = MemSet(value, DomainTtl(ttlMs), now)
          /\ UNCHANGED cacheCall
     ELSE /\ cacheCall' = [kind |-> "set", value |-> value,
                           ttlMs |-> DomainTtl(ttlMs), expect |-> NoEntry]
          /\ UNCHANGED memoryCache
  /\ UNCHANGED <<now, swapVars, fallback, redisKey, lastSet, lastGet, mxVars,
                 hotFrame>>

\* RedisCache.set after its await of setInRedis: Redis has run the SET (ok)
\* or the command has failed; the fallback is written in both cases
CacheSetReply(ok) ==
  /\ cacheCall.kind = "set"
  /\ ok => redisClient = "ready"
  /\ redisKey' = IF ok
                 THEN setInRedis(cacheCall.value, CeilSeconds(cacheCall.ttlMs), now)
                 ELSE redisKey
  /\ fallback' = MemSet(cacheCall.value, cacheCall.ttlMs, now)
  /\ lastSet' = MemSet(cacheCall.value, cacheCall.ttlMs, now)
  /\ cacheCall' = NoCall
  /\ UNCHANGED <<now, swapVars, memoryCache, lastGet, mxVars, hotFrame>>

\* cache.getMxFromCache(domain)
CacheGet ==
  /\ cacheCall.kind = "none"
  /\ IF cacheContainer = "memory"
     THEN /\ memoryCache' = cleanupExpired(memoryCache, now)
          /\ UNCHANGED cacheCall
     ELSE /\ cacheCall' = [kind |-> "get", value |-> <<>>, ttlMs |-> 0,
                           expect |-> lastSet]
          /\ UNCHANGED memoryCache
  /\ UNCHANGED <<now, swapVars, fallback, redisKey, lastSet, lastGet, mxVars,
                 hotFrame>>

\* RedisCache.get after its await of getFromRedis
CacheGetReply(ok) ==
  /\ cacheCall.kind = "get"
  /\ ok => redisClient = "ready"
  /\ fallback' = FallbackAfterGet(ok)
  /\ lastGet' =
       [done |-> TRUE,
        inTime |-> /\ cacheCall.expect.present
                   /\ cacheCall.expect = lastSet
                   /\ now < cacheCall.expect.expiresAt,
        returnsSet |-> /\ RedisCacheGet(ok).hit
                       /\ RedisCacheGet(ok).data = cacheCall.expect.data,
        held |-> getFromRedis(redisKey, ok).hit,
        returnsHeld |-> /\ RedisCacheGet(ok).hit
                        /\ RedisCacheGet(ok).data = getFromRedis(redisKey, ok).data]
  /\ cacheCall' = NoCall
  /\ UNCHANGED <<now, swapVars, memoryCache, redisKey, lastSet, mxVars,
                 hotFrame>>

\* The process after the modules have loaded: Redis disabled, or enabled with
\* the connection not yet ready; the InMemory backends and the sweep timer
InitHot ==
  /\ now = 1000
  /\ config \in Configs
  /\ config.maxGlobalConcurrency = 1
  /\ MemIdle
  /\ RedisIdle
  /\ SmtpIdle
  /\ redisClient \in {"off", "connecting"}
  /\ readyHandlers = (redisClient = "connecting")
  /\ throttleStateContainer = "memory"
  /\ cacheContainer = "memory"
  /\ cleanupInterval = now + CleanupPeriodMs
  /\ importer = NoImporter
  /\ memoryCache = NoEntry
  /\ fallback = NoEntry
  /\ redisKey = NoText
  /\ cacheCall = NoCall
  /\ lastSet = NoEntry
  /\ lastGet = NoGet
  /\ mxCall = NoMxCall
  /\ lastMx = NoMx
  /\ SingleIdle

NextSwap ==
  \/ ReadyEvent
  \/ CloseEvent
  \/ Import
  \/ ThrottleCall
  \/ Sweep
  \/ HotAdvance

SpecSwap == InitHot /\ [][NextSwap]_vars

NextCache ==
  \/ ReadyEvent
  \/ CloseEvent
  \/ \E v \in CacheValues, ttlMs \in TtlChoices : CacheSet(v, ttlMs)
  \/ \E ok \in BOOLEAN : CacheSetReply(ok)
  \/ CacheGet
  \/ \E ok \in BOOLEAN : CacheGetReply(ok)
  \/ Sweep
  \/ HotAdvance

SpecCache == InitHot /\ [][NextCache]_vars

\* ---- validateMx(domain) on the cache of the domain's key
\* What dns.resolveMx can answer: record lists in the resolver's order, or an
\* error with a code
ResolverLists == {<<>>, <<Mx("a", 10)>>, <<Mx("b", 20), Mx("a", 10)>>}
ResolverErrors == {"ENOTFOUND", "ENODATA", "ETIMEOUT", "ETIMEDOUT", "ESERVFAIL"}
DnsAnswers ==
  [code : {"ok"}, records : ResolverLists]
    \cup [code : ResolverErrors, records : {<<>>}]

\* The answers that are cached: a record list, and the two codes the catch
\* block turns into an empty list
Definitive(answer) == answer.code \in {"ok", "ENOTFOUND", "ENODATA"}
SortedRecords(answer) ==
  IF answer.code = "ok" THEN SortByPriority(answer.records) ELSE <<>>

\* The history of a call that begins: what the call before it left
Begun == [NoMx EXCEPT !.prev = lastMx.kind, !.until = lastMx.cachedUntil]
\* ... that found the key in the cache
Answered(m, data) ==
  [m EXCEPT !.done = TRUE, !.hit = TRUE, !.inTime = now <= m.until,
            !.domainHasMx = Len(data) > 0, !.kind = "cache_hit"]
\* ... that missed the cache and calls dns.resolveMx
Missed(m) == [m EXCEPT !.queried = TRUE, !.inTime = now <= m.until]
\* ... that has cached the resolver's answer
Finished(m, value, until) ==
  [m EXCEPT !.done = TRUE, !.domainHasMx = Len(value) > 0,
            !.kind = IF value = <<>> THEN "empty" ELSE "records",
            !.cachedUntil = until]
\* ... that returns dns_timeout or dns_lookup_failed
Failed(m) == [m EXCEPT !.done = TRUE, !.kind = "transient"]

\* validateMx is called: cache.getMxFromCache, answered at once by the
\* InMemoryCache and after a round trip by the RedisCache
MxCall ==
  /\ mxCall.pc = "idle"
  /\ IF cacheContainer = "memory"
     THEN /\ memoryCache' = cleanupExpired(memoryCache, now)
          /\ IF MemGet(memoryCache, now).hit
             THEN /\ lastMx' = Answered(Begun, MemGet(memoryCache, now).data)
                  /\ UNCHANGED mxCall
             ELSE /\ lastMx' = Missed(Begun)
                  /\ mxCall' = [mxCall EXCEPT !.pc = "dns"]
     ELSE /\ lastMx' = Begun
          /\ mxCall' = [mxCall EXCEPT !.pc = "get"]
          /\ UNCHANGED memoryCache
  /\ UNCHANGED <<now, swapVars, fallback, redisKey, cacheCall, lastSet,
                 lastGet, hotFrame>>

\* The RedisCache answers the get
MxGetReply(ok) ==
  /\ mxCall.pc = "get"
  /\ ok => redisClient = "ready"
  /\ fallback' = FallbackAfterGet(ok)
  /\ IF RedisCacheGet(ok).hit
     THEN /\ lastMx' = Answered(lastMx, RedisCacheGet(ok).data)
          /\ mxCall' = NoMxCall
     ELSE /\ lastMx' = Missed(lastMx)
          /\ mxCall' = [mxCall EXCEPT !.pc = "dns"]
  /\ UNCHANGED <<now, swapVars, memoryCache, redisKey, cacheCall, lastSet,
                 lastGet, hotFrame>>

\* The resolver answers: a definitive answer goes to the cache that is active
\* now, a timeout or another error is returned without caching
MxDnsReply(answer) ==
  /\ mxCall.pc = "dns"
  /\ IF ~Definitive(answer)
     THEN /\ lastMx' = Failed(lastMx)
          /\ mxCall' = NoMxCall
          /\ UNCHANGED memoryCache
     ELSE IF cacheContainer = "memory"
     THEN /\ memoryCache' = MemSet(SortedRecords(answer), DomainTtl(0), now)
          /\ lastMx' = Finished(lastMx, SortedRecords(answer),
                                now + DomainTtl(0))
          /\ mxCall' = NoMxCall
     ELSE /\ mxCall' = [pc |-> "set", value |-> SortedRecords(answer)]
          /\ UNCHANGED <<memoryCache, lastMx>>
  /\ UNCHANGED <<now, swapVars, fallback, redisKey, cacheCall, lastSet,
                 lastGet, hotFrame>>

\* The RedisCache has done the set
MxSetReply(ok) ==
  /\ mxCall.pc = "set"
  /\ ok => redisClient = "ready"
  /\ redisKey' = IF ok
                 THEN setInRedis(mxCall.value, CeilSeconds(DomainTtl(0)), now)
                 ELSE redisKey
  /\ fallback' = MemSet(mxCall.value, DomainTtl(0), now)
  /\ lastMx' = Finished(lastMx, mxCall.value, now + DomainTtl(0))
  /\ mxCall' = NoMxCall
  /\ UNCHANGED <<now, swapVars, memoryCache, cacheCall, lastSet, lastGet,
                 hotFrame>>

NextMx ==
  \/ ReadyEvent
  \/ CloseEvent
  \/ MxCall
  \/ \E ok \in BOOLEAN : MxGetReply(ok)
  \/ \E answer \in DnsAnswers : MxDnsReply(answer)
  \/ \E ok \in BOOLEAN : MxSetReply(ok)
  \/ Sweep
  \/ HotAdvance

SpecMx == InitHot /\ [][NextMx]_vars

----------------------------------------------------------------------------
(* validateSmtp down to one validateSmtpSingle, with the clock: the phase   *)
(* timer of performSmtpHandshake, the overall timer raced against it, and   *)
(* what is written to the socket.                                           *)

\* The configs validateSmtp is called with: the defaults of the environment,
\* phase timeouts whose sum exceeds the overall timeout, a banner timeout of
\* 0 and an RCPT timeout above the overall timeout
TimeoutsWith(tls) ==
  {[DefaultTimeouts EXCEPT !.requireTls = tls],
   [DefaultTimeouts EXCEPT !.requireTls = tls, !.bannerTimeoutMs = 4000,
      !.ehloTimeoutMs = 4000, !.mailTimeoutMs = 4000, !.rcptTimeoutMs = 4000],
   [DefaultTimeouts EXCEPT !.requireTls = tls, !.bannerTimeoutMs = 0],
   [DefaultTimeouts EXCEPT !.requireTls = tls, !.rcptTimeoutMs = 12000]}
TimeoutConfigs == TimeoutsWith(TRUE) \cup TimeoutsWith(FALSE)

\* The instants at which the server or the network does something
SingleInstants == {1000, 2000, 3000, 5000, 9000}

\* setTimeout(callback, ms): a delay below 1 is taken as 1
TimerMs(ms) == IF ms < 1 THEN 1 ELSE ms

\* The timeout of the phase that step st waits in
PhaseTimeoutMs(cfg, st) ==
  IF st = 0 THEN cfg.bannerTimeoutMs
  ELSE IF st = 1 THEN cfg.ehloTimeoutMs
  ELSE IF st = 3 THEN cfg.mailTimeoutMs
  ELSE cfg.rcptTimeoutMs

\* The command written when the handshake moves to step st
CommandOf(st) ==
  IF st = 1 THEN "EHLO" ELSE IF st = 3 THEN "MAIL FROM" ELSE "RCPT TO"

\* The lines a server sends at a step: the final lines, and at the EHLO and
\* RCPT steps a line of a multi-line response, which the handler skips
SingleLines(st) ==
  LinesAt(st) \cup (IF st = 1 THEN {Line.ContSize}
                    ELSE IF st = 4 THEN {Line.ContNoSuchUser} ELSE {})

\* socket.write('QUIT\r\n') goes before every resolve of the handshake
QuitNever(kind) == FALSE
QuitBeforeResolve(kind) == kind = "resolve"

singleFrame ==
  <<config, memVars, redisVars, orchVars, rcptVars, storeHist, hotVars>>

\* The attempt is over: validateSmtpSingle has recorded with the throttle, and
\* its finally has released the slot and destroyed the socket
Ended(cause, res, ops) ==
  /\ single' = [single EXCEPT !.pc = "done", !.cause = cause,
                              !.endedStep = step, !.endedAt = now,
                              !.result = res,
                              !.trace = @ \o ops \o <<"destroy", "return">>]
  /\ step' = 0
  /\ currentTimeout' = FALSE
  /\ ehloCapabilities' = {}

\* validateSmtp(email, domain, cfg) is called: it awaits validateMx
ValidateSmtpCall(cfg) ==
  /\ single.pc = "idle"
  /\ single' = [single EXCEPT !.pc = "mx", !.cfg = cfg]
  /\ UNCHANGED <<now, hsVars, singleFrame>>

\* validateMx answers: without records validateSmtp returns, with records it
\* comes to a validateSmtpSingle, which awaits acquireSlot
SingleMxAnswer(found) ==
  /\ single.pc = "mx"
  /\ single' = IF found THEN [single EXCEPT !.pc = "acquire"]
               ELSE [single EXCEPT !.pc = "done", !.cause = "no_mx",
                                   !.endedAt = now, !.result = NoMxResult,
                                   !.trace = <<"return">>]
  /\ UNCHANGED <<now, hsVars, singleFrame>>

\* acquireSlot throws its timeout
SingleAcquireTimeout ==
  /\ single.pc = "acquire"
  /\ single' = [single EXCEPT !.pc = "done", !.cause = "acquire_timeout",
                              !.endedAt = now, !.trace = <<"return">>]
  /\ UNCHANGED <<now, hsVars, singleFrame>>

\* acquireSlot returns: the socket is created, performSmtpHandshake sets the
\* banner timer and connects, and timeoutPromise sets the overall timer
SingleAcquired ==
  /\ single.pc = "acquire"
  /\ single' = [single EXCEPT
                  !.pc = "handshake", !.slots = @ + 1,
                  !.deadline = now + TimerMs(single.cfg.bannerTimeoutMs),
                  !.overallDue = now + TimerMs(single.cfg.overallTimeoutMs),
                  !.trace = <<"connect">>]
  /\ step' = 0
  /\ currentTimeout' = TRUE
  /\ ehloCapabilities' = {}
  /\ UNCHANGED <<now, singleFrame>>

\* A 'data' event with one complete line
SingleData(line) ==
  /\ single.pc = "handshake"
  /\ currentTimeout
  /\ line \in SingleLines(step)
  /\ LET h == HandleData(step, <<line>>, ehloCapabilities,
                         single.cfg.requireTls)
     IN IF h.kind = "next" /\ h.step = step
        THEN /\ ehloCapabilities' = h.caps
             /\ UNCHANGED <<step, currentTimeout, single>>
        ELSE IF h.kind = "next"
        THEN /\ step' = h.step
             /\ ehloCapabilities' = h.caps
             /\ currentTimeout' = TRUE
             /\ single' =
                  [single EXCEPT
                     !.deadline =
                        now + TimerMs(PhaseTimeoutMs(single.cfg, h.step)),
                     !.trace = Append(@, CommandOf(h.step))]
        ELSE Ended(IF h.kind = "reject" THEN "rejected"
                   ELSE IF step = 4 THEN "rcpt_final" ELSE "tls_required",
                   IF h.kind = "reject" THEN mapErrorToResult(h.error)
                   ELSE h.result,
                   IF QuitBeforeResolve(h.kind) THEN <<"QUIT">> ELSE <<>>)
  /\ UNCHANGED <<now, singleFrame>>

\* The phase timer fires: its callback destroys the socket and rejects
SinglePhaseTimeout ==
  /\ single.pc = "handshake"
  /\ currentTimeout
  /\ now >= single.deadline
  /\ Ended("phase_timeout", mapErrorToResult(Err(PhaseOf(step), "")),
           <<"destroy">>)
  /\ UNCHANGED <<now, singleFrame>>

\* The overall timer fires and wins the race
SingleOverallTimeout ==
  /\ single.pc = "handshake"
  /\ now >= single.overallDue
  /\ Ended("overall_timeout",
           mapErrorToResult(Err(Str.OperationTimeout, "")), <<>>)
  /\ UNCHANGED <<now, singleFrame>>

\* The socket emits 'error'
SingleSocketError(error) ==
  /\ single.pc = "handshake"
  /\ Ended("socket_error", mapErrorToResult(error), <<>>)
  /\ UNCHANGED <<now, singleFrame>>

\* The server closes the connection ('end'): the phase timer is cleared;
\* before the RCPT step the handshake rejects, at the RCPT step it stays
\* pending
SingleSocketEnd ==
  /\ single.pc = "handshake"
  /\ currentTimeout
  /\ IF step < 4
     THEN Ended("socket_end",
                mapErrorToResult(Err(Str.ClosedPrematurely, "")), <<>>)
     ELSE /\ currentTimeout' = FALSE
          /\ UNCHANGED <<step, ehloCapabilities, single>>
  /\ UNCHANGED <<now, singleFrame>>

\* Time passes, up to the next timer that is set
SingleAdvance ==
  /\ single.pc = "handshake"
  /\ \E t \in SingleInstants \cup {single.deadline, single.overallDue} :
       /\ t > now
       /\ currentTimeout => t <= single.deadline
       /\ t <= single.overallDue
       /\ now' = t
  /\ UNCHANGED <<hsVars, single, singleFrame>>

InitSingle ==
  /\ now = 1000
  /\ config \in Configs
  /\ config.maxGlobalConcurrency = 1
  /\ MemIdle
  /\ RedisIdle
  /\ SmtpIdle
  /\ HotIdle
  /\ SingleIdle

NextSingle ==
  \/ \E cfg \in TimeoutConfigs : ValidateSmtpCall(cfg)
  \/ \E found \in BOOLEAN : SingleMxAnswer(found)
  \/ SingleAcquireTimeout
  \/ SingleAcquired
  \/ \E line \in UNION {SingleLines(st) : st \in {0, 1, 3, 4}} :
       SingleData(line)
  \/ SinglePhaseTimeout
  \/ SingleOverallTimeout
  \/ \E error \in SocketErrors : SingleSocketError(error)
  \/ SingleSocketEnd
  \/ SingleAdvance

SpecSingle == InitSingle /\ [][NextSingle]_vars

----------------------------------------------------------------------------
(* Claims on the hot swap and on the cache                                  *)

\* C22: every call made through the exported throttleState is executed by the
\* Redis store once the ready handler has run, also for a module that imported
\* throttleState before the swap, and by the in-memory store before that.
C22_CallsFollowTheSwap ==
  [][importer'.calls > importer.calls =>
       importer'.executedBy = IF ReadyHandled THEN "redis" ELSE "memory"]_vars

\* A module that imported throttleState before the swap has had a call
\* executed by the Redis store
C22_EarlyImporterOnRedis ==
  /\ importer.obtained = "before"
  /\ importer.calls > 0
  /\ importer.executedBy = "redis"

\* C24: a get of the RedisCache that follows a completed set within the TTL
\* returns the value that was set, whether or not the Redis write went
\* through, and a get returns the Redis value whenever Redis holds one.
C24_GetAfterSet ==
  lastGet.done =>
    /\ lastGet.inTime => lastGet.returnsSet
    /\ lastGet.held => lastGet.returnsHeld

\* C25: once the cache has been swapped to the RedisCache the sweep timer is
\* cleared, and the in-memory cache is not swept (nor touched) any more.
C25_NoSweepAfterSwap ==
  /\ [](cacheContainer = "redis" => cleanupInterval = 0)
  /\ [][cacheContainer = "redis" => memoryCache' = memoryCache]_vars

\* After the swap a tick of the timer would have been due and the in-memory
\* cache still holds an entry that has expired
C25_ExpiredEntryLeftAlone ==
  /\ cacheContainer = "redis"
  /\ now >= 1000 + 2 * CleanupPeriodMs
  /\ memoryCache.present
  /\ now > memoryCache.expiresAt

\* C26: a validateMx that fails with a timeout or another transient error
\* leaves the caches as they were and the next call queries the resolver; a
\* validateMx that gets a definitive empty answer leaves an empty entry in the
\* cache, and the next call within the TTL answers 'no MX' from the cache
\* without querying the resolver.
C26_TransientNotCachedEmptyCached ==
  /\ [](lastMx.done =>
          /\ lastMx.prev = "transient" => lastMx.queried
          /\ lastMx.prev = "empty" /\ lastMx.inTime =>
               lastMx.hit /\ ~lastMx.queried /\ ~lastMx.domainHasMx)
  /\ [][/\ lastMx'.done /\ ~lastMx.done /\ lastMx'.kind = "transient" =>
             UNCHANGED <<memoryCache, fallback, redisKey>>
        /\ lastMx'.done /\ ~lastMx.done /\ lastMx'.kind = "empty" =>
             IF cacheContainer = "memory"
             THEN MemGet(memoryCache', now) = [hit |-> TRUE, data |-> <<>>]
             ELSE MemGet(fallback', now) = [hit |-> TRUE, data |-> <<>>]]_vars

----------------------------------------------------------------------------
(* Claims on the timers of an attempt and on its socket                     *)

\* What the socket's trace holds, and where an operation comes first
TraceOps == {single.trace[i] : i \in 1..Len(single.trace)}
FirstAt(op) ==
  CHOOSE i \in 1..Len(single.trace) :
    /\ single.trace[i] = op
    /\ \A j \in 1..(i - 1) : single.trace[j] # op

\* The reason code that names the timeout of the phase of step st
PhaseReason(st) ==
  IF st = 0 THEN "smtp_banner_timeout"
  ELSE IF st = 1 THEN "smtp_ehlo_timeout"
  ELSE IF st = 3 THEN "smtp_mail_timeout"
  ELSE "smtp_rcpt_timeout"

\* The attempt has ended with the phase timer firing, or after the deadline
\* of the phase it was waiting in
PhaseLimitExceeded ==
  /\ single.pc = "done"
  /\ single.slots > 0
  /\ single.cause = "phase_timeout" \/ single.endedAt > single.deadline

\* C27: an attempt in which the server sends no complete final line within
\* the timeout of the phase awaited (banner, EHLO, MAIL FROM, RCPT TO) ends
\* with the socket destroyed and the verdict unknown, its reason codes naming
\* the timeout of that phase.
C27_PhaseTimeoutNamed ==
  PhaseLimitExceeded =>
    /\ "destroy" \in TraceOps
    /\ single.result.smtpStatus = "unknown"
    /\ \E i \in 1..Len(single.result.reasonCodes) :
         single.result.reasonCodes[i] = PhaseReason(single.endedStep)

\* C28: an attempt that ends on a final RCPT TO response has written QUIT
\* before the socket is destroyed and before the verdict is returned; an
\* attempt that ends on a socket error, a phase timeout or the overall
\* timeout has written no QUIT.
C28_QuitOnlyOnFinalRcpt ==
  single.pc = "done" =>
    /\ single.cause = "rcpt_final" =>
         /\ "QUIT" \in TraceOps
         /\ FirstAt("QUIT") < FirstAt("destroy")
         /\ FirstAt("QUIT") < FirstAt("return")
    /\ single.cause \in {"socket_error", "phase_timeout", "overall_timeout"} =>
         "QUIT" \notin TraceOps

\* An attempt has ended on a final RCPT TO response: RCPT TO and QUIT were
\* written and the socket destroyed
C28_FinalRcptAnswered ==
  /\ single.pc = "done"
  /\ single.cause = "rcpt_final"
  /\ single.result.smtpStatus = "invalid"
  /\ single.trace =
       <<"connect", "EHLO", "MAIL FROM", "RCPT TO", "QUIT", "destroy",
         "return">>

\* A phase timeout that is not above 0, or that exceeds the overall timeout
BadTimeouts(cfg) ==
  \E ms \in {cfg.bannerTimeoutMs, cfg.ehloTimeoutMs, cfg.mailTimeoutMs,
             cfg.rcptTimeoutMs} :
    ms <= 0 \/ ms > cfg.overallTimeoutMs

\* C29: a validateSmtp called with a phase timeout that is 0 or less, or
\* above overallTimeoutMs, acquires no throttle slot and opens no connection.
C29_BadTimeoutsFailClosed ==
  single.pc # "idle" /\ BadTimeouts(single.cfg) =>
    /\ single.slots = 0
    /\ "connect" \notin TraceOps

----------------------------------------------------------------------------
(* Claims on the wait of acquireSlot                                        *)

\* The longest single sleep of acquireSlot's loop under the configuration
LongestSleepMs ==
  Max(PenaltySleepCapMs, Max(LimitSleepMs, config.perDomainMinIntervalMs))

\* The clock can still pass the wait limit of a call begun at start
LimitWithinClock(start) == \E t \in Instants : WaitExpired(t, start)

\* C30: an acquireSlot call whose gates do not hold does not wait forever.
\* While it is suspended it has acquired nothing and its next wake-up lies no
\* further than the wait limit plus one sleep after its start; a suspended
\* call ends without a slot only when its wait limit is exceeded, and that
\* step changes neither the global counter nor any host's state; and every
\* suspended call whose limit the clock can pass stops being suspended.
C30_WaitEndsInTimeout ==
  /\ [](\A c \in Callers :
          pc[c] = "sleeping" /\ wakeAt[c] # 0 =>
            wakeAt[c] - startTime[c] <= maxWaitTime + LongestSleepMs)
  /\ [][\A c \in Callers :
          pc[c] = "sleeping" /\ pc'[c] = "idle" =>
            /\ WaitExpired(now, startTime[c])
            /\ globalConcurrency' = globalConcurrency
            /\ mxStates' = mxStates]_vars
  /\ \A c \in Callers :
        (pc[c] = "sleeping" /\ LimitWithinClock(startTime[c]))
          ~> (pc[c] # "sleeping")

\* C30, witness: a call has ended in the timeout error.  The host it asked
\* for was created by the call and never granted (no attempt is recorded on
\* it, nothing is in flight on it, no call is attached to it), while the slot
\* whose holder kept the call waiting is still counted.
C30_Witness ==
  \E h \in DOMAIN mxStates :
    /\ mxStates[h].lastAttemptAt = 0
    /\ mxStates[h].concurrency = 0
    /\ \A c \in Callers : chost[c] # h
    /\ globalConcurrency > 0
    /\ \E c \in Callers : pc[c] = "holding"

\* The caller of the failed acquireSlot goes on: the step in which the
\* timeout error reaches validateSmtpWithRetry's catch (or the probe's) holds
\* no slot, calls no releaseSlot, and leaves the invocation at a retry sleep,
\* at the next acquisition or at its end, never again at the same wait.
C30_OrchestratorMovesOn ==
  [][orch.pc = "acquire" /\ orch'.pc # "handshake" =>
       /\ ~slotHeld'
       /\ releaseCalls' = 0
       /\ orch' # orch]_vars

----------------------------------------------------------------------------
(* The in-memory store with two attempts on one host: each acquires, holds  *)
(* and releases, and successes and failures are recorded on the host.       *)

\* maxMxConcurrency at its least value and at its default
CeilingConfigs ==
  {[maxGlobalConcurrency |-> 2, maxMxConcurrency |-> m,
    perDomainMinIntervalMs |-> 0] : m \in {1, 2}}

InitCeiling ==
  /\ InitStore
  /\ config \in CeilingConfigs

NextCeiling ==
  \/ \E c \in Callers, h \in RecordHosts : AcquireSlot(c, h)
  \/ \E c \in Callers : AcquireResume(c)
  \/ \E c \in Callers : ReleaseSlot(c)
  \/ \E h \in RecordHosts : RecordSuccessCall(h)
  \/ \E h \in RecordHosts, p \in BOOLEAN : RecordFailureCall(h, p)
  \/ Advance

SpecCeiling == InitCeiling /\ [][NextCeiling]_vars

\* C31: the slots held at once for a host never exceed the maxMxConcurrency
\* passed to acquireSlot, whatever successes and failures were recorded on
\* the host.
C31_HeldWithinConfigured ==
  \A h \in Hosts : Held(h) <= config.maxMxConcurrency

----------------------------------------------------------------------------
(* RedisThrottleStore as the active backend while Redis cannot be used: the *)
(* client object exists and every command fails (down), or disconnect() has *)
(* dropped it (absent).  The calls of one process run side by side; call p  *)
(* is caller p of the store's fallback InMemoryThrottleStore.               *)

degradedFrame == <<config, hsVars, orchVars, rcptVars, storeHist, single>>
hotRest == <<readyHandlers, throttleStateContainer, cacheContainer,
             cleanupInterval, importer, cacheVars, mxVars>>

\* What acquireThrottleSlot returns without a client or after a failed EVAL:
\* acquired false and no waitMs, so acquireSlot sleeps its default
UnavailableSleep(p) ==
  /\ rpc' = [rpc EXCEPT ![p] = "sleeping"]
  /\ rwake' = [rwake EXCEPT ![p] = now + Min(DefaultWaitMs, MaxSleepMs)]
  /\ rsnap' = [rsnap EXCEPT ![p] = NoState]
  /\ rnow' = [rnow EXCEPT ![p] = 0]
  /\ rceil' = [rceil EXCEPT ![p] = 0]
  /\ UNCHANGED <<rhost, rstart>>

\* RedisThrottleStore.acquireSlot is called: without a client the call is
\* the fallback's, with one the loop begins
UnavailableAcquireSlot(p, h) ==
  /\ rpc[p] = "idle"
  /\ pc[p] = "idle"
  /\ IF redisClient = "absent"
     THEN /\ LoopIteration(p, h,
                           getOrCreateState(h, config.maxMxConcurrency), now)
          /\ UNCHANGED <<penalties, redisVars>>
     ELSE /\ RLoopTop(p, h, now)
          /\ UNCHANGED <<memVars, storeVars, bgVars, histVars>>
  /\ UNCHANGED <<now, redisClient, hotRest, degradedFrame>>

\* getFromRedis answers null (no client, or the GET failed and was caught);
\* acquireThrottleSlot is called with the starting ceiling
UnavailableGetReply(p) ==
  /\ rpc[p] = "get"
  /\ IF redisClient = "absent"
     THEN UnavailableSleep(p)
     ELSE /\ rpc' = [rpc EXCEPT ![p] = "eval"]
          /\ rsnap' = [rsnap EXCEPT ![p] = NoState]
          /\ rceil' = [rceil EXCEPT ![p] = CeilingOf(NoState)]
          /\ UNCHANGED <<rhost, rstart, rnow, rwake>>
  /\ UNCHANGED <<now, memVars, storeVars, bgVars, histVars, redisClient,
                 hotRest, degradedFrame>>

\* The EVAL fails: acquireThrottleSlot catches and answers script_error
UnavailableEvalReply(p) ==
  /\ rpc[p] = "eval"
  /\ UnavailableSleep(p)
  /\ UNCHANGED <<now, memVars, storeVars, bgVars, histVars, redisClient,
                 hotRest, degradedFrame>>

\* sleep(...) is over: the next pass of the loop, with the client the call
\* read when it began
UnavailableResume(p) ==
  /\ rpc[p] = "sleeping"
  /\ rwake[p] = 0
  /\ RLoopTop(p, rhost[p], rstart[p])
  /\ UNCHANGED <<now, memVars, storeVars, bgVars, histVars, redisClient,
                 hotRest, degradedFrame>>

\* redisClient.disconnect(): the client is dropped
Disconnect ==
  /\ redisClient = "down"
  /\ redisClient' = "absent"
  /\ UNCHANGED <<now, memVars, redisVars, hotRest, degradedFrame>>

\* Time passes for the sleeps of both stores
UnavailableAdvance ==
  /\ \E t \in Instants :
        /\ t > now
        /\ now' = t
        /\ wakeAt' = [c \in Callers |-> IF wakeAt[c] <= t THEN 0 ELSE wakeAt[c]]
        /\ rwake' = [p \in Procs |-> IF rwake[p] <= t THEN 0 ELSE rwake[p]]
  /\ UNCHANGED <<penalties, mxStates, globalConcurrency, pc, chost, startTime,
                 storeVars, rpc, rhost, rstart, rnow, rsnap, rceil, bgVars,
                 histVars, redisClient, hotRest, degradedFrame>>

InitUnavailable ==
  /\ now = 1000
  /\ config \in Configs
  /\ MemIdle
  /\ RedisIdle
  /\ SmtpIdle
  /\ SingleIdle
  /\ redisClient \in {"down", "absent"}
  /\ readyHandlers = FALSE
  /\ throttleStateContainer = "redis"
  /\ cacheContainer = "memory"
  /\ cleanupInterval = 0
  /\ importer = NoImporter
  /\ memoryCache = NoEntry
  /\ fallback = NoEntry
  /\ redisKey = NoText
  /\ cacheCall = NoCall
  /\ lastSet = NoEntry
  /\ lastGet = NoGet
  /\ mxCall = NoMxCall
  /\ lastMx = NoMx

\* Without a client releaseSlot, recordSuccess and recordFailure are the
\* fallback's, and so is the rest of an acquireSlot the fallback took over
NextUnavailable ==
  \/ \E p \in Procs, h \in Hosts : UnavailableAcquireSlot(p, h)
  \/ \E p \in Procs : UnavailableGetReply(p)
  \/ \E p \in Procs : UnavailableEvalReply(p)
  \/ \E p \in Procs : UnavailableResume(p)
  \/ Disconnect
  \/ \E c \in Callers : AcquireResume(c)
  \/ \E c \in Callers : RecordSuccess(c)
  \/ \E c \in Callers, b \in BOOLEAN : RecordFailure(c, b)
  \/ \E c \in Callers : ReleaseSlot(c)
  \/ UnavailableAdvance

SpecUnavailable == InitUnavailable /\ [][NextUnavailable]_vars

\* C32: while the Redis backend is active and Redis cannot be used, an
\* acquireSlot call that has begun on Redis is handed to the in-memory
\* fallback: when it leaves the loop on Redis, the fallback has granted the
\* slot or keeps the call waiting at one of its own gates; it neither fails
\* nor waits out its limit on Redis.
C32_DegradesToFallback ==
  [][\A p \in Procs :
       rpc[p] # "idle" /\ rpc'[p] = "idle" =>
         pc'[p] \in {"holding", "sleeping"}]_vars

----------------------------------------------------------------------------
(* Claims on the streaks of the in-memory store                             *)

\* A step of recordSuccess / recordFailure on the state of host h
SuccessStep(h) ==
  /\ h \in DOMAIN mxStates
  /\ mxStates'[h].successCount = mxStates[h].successCount + 1
FailureStep(h) ==
  /\ h \in DOMAIN mxStates
  /\ mxStates'[h].failures = mxStates[h].failures + 1
Raised(h) == mxStates'[h].maxConcurrency > mxStates[h].maxConcurrency

\* What recordSuccess does to the failure counter and to the ceiling, and
\* recordFailure to the streak: the counter goes down by one and not below
\* 0, the ceiling rises by at most one, only with a streak above the
\* threshold and never above the hard ceiling, and a failure ends the streak.
C33_DecayRaiseReset ==
  [][\A h \in RecordHosts :
       /\ SuccessStep(h) =>
            /\ mxStates'[h].failures = Max(0, mxStates[h].failures - 1)
            /\ mxStates'[h].maxConcurrency
                 \in {mxStates[h].maxConcurrency,
                      mxStates[h].maxConcurrency + 1}
            /\ Raised(h) =>
                 /\ mxStates'[h].successCount > SuccessThreshold
                 /\ mxStates'[h].maxConcurrency <= HardCeiling
       /\ FailureStep(h) => mxStates'[h].successCount = 0]_vars

\* C33: recordSuccess lowers the failure counter by one, not below 0, and
\* raises the ceiling by one, never above 5, once per run of more than 10
\* successes in a row: the success that raises it is the one that takes the
\* streak past the threshold, not a later one of the same streak; any
\* recordFailure resets the streak to 0.
C33_OneRaisePerRun ==
  [][\A h \in RecordHosts :
       /\ SuccessStep(h) =>
            /\ mxStates'[h].failures = Max(0, mxStates[h].failures - 1)
            /\ mxStates'[h].maxConcurrency <= Max(HardCeiling,
                                                  mxStates[h].maxConcurrency)
            /\ Raised(h) => mxStates[h].successCount = SuccessThreshold
       /\ FailureStep(h) => mxStates'[h].successCount = 0]_vars

----------------------------------------------------------------------------
(* Claims on the verdict of one attempt                                     *)

\* How an attempt ends before a final RCPT TO line has arrived
EarlyEnds ==
  {"rejected", "tls_required", "phase_timeout", "overall_timeout",
   "socket_error", "socket_end"}
FromRcptOnly == {"valid", "invalid", "catch_all", "temporarily_unavailable"}

\* C34: an attempt has one of the verdicts valid, invalid, catch_all and
\* temporarily_unavailable only if it ended on a final RCPT TO line; an
\* attempt that ended earlier (a banner other than 220, EHLO or MAIL FROM
\* answered with a code other than 250, a socket error, the close of the
\* connection, a phase timeout, the overall timeout) has the verdict unknown.
C34_VerdictOnlyFromRcpt ==
  single.pc = "done" /\ single.cause \in EarlyEnds \cup {"rcpt_final"} =>
    /\ single.result.smtpStatus \in FromRcptOnly =>
         single.cause = "rcpt_final"
    /\ single.cause \in EarlyEnds => single.result.smtpStatus = "unknown"

\* C34, witness: an attempt whose banner was 554 has ended with the verdict
\* unknown
C34_BannerRefused ==
  /\ single.pc = "done"
  /\ single.cause = "rejected"
  /\ single.endedStep = 0
  /\ single.result.smtpStatus = "unknown"

\* The same for the ends no SMTP code comes with
C34_WithoutCodeUnknown ==
  single.pc = "done" /\ single.cause \in EarlyEnds \ {"rejected"} =>
    single.result.smtpStatus = "unknown"

\* The phase timer follows the phase: entering a phase sets the timer of that
\* phase in place of the one before, and while the phase lasts the timer is
\* not set anew
TimerFollowsPhase ==
  /\ single.pc' = "handshake" /\ (single.pc # "handshake" \/ step' # step) =>
       /\ currentTimeout'
       /\ single.deadline' =
            now' + TimerMs(PhaseTimeoutMs(single.cfg', step'))
  /\ single.pc = "handshake" /\ single.pc' = "handshake" /\ step' = step =>
       single.deadline' = single.deadline

\* C35: while a handshake is not settled and waits for the server's response
\* in a phase (banner, EHLO, MAIL FROM, RCPT TO), the one phase timer is
\* armed and it is the timer of that phase: no unsettled waiting state is
\* without it and no timer of an earlier phase is left.
C35_PhaseTimerArmed ==
  /\ [](single.pc = "handshake" => currentTimeout)
  /\ [][TimerFollowsPhase]_vars

\* The same up to the close of the connection at the RCPT step: the only
\* unsettled state without a phase timer is the one the 'end' handler leaves
C35_ArmedUntilPeerCloses ==
  /\ [](single.pc = "handshake" /\ ~currentTimeout => step = 4)
  /\ [][single.pc = "handshake" /\ currentTimeout /\ ~currentTimeout'
          /\ single.pc' = "handshake" => step = 4 /\ UNCHANGED single]_vars
  /\ [][TimerFollowsPhase]_vars

----------------------------------------------------------------------------
(* Claims on the counters of the in-memory store                            *)

\* state.concurrency summed over the hosts of a set
RECURSIVE ConcurrencyOver(_)
ConcurrencyOver(S) ==
  IF S = {} THEN 0
  ELSE LET h == CHOOSE x \in S : TRUE
       IN mxStates[h].concurrency + ConcurrencyOver(S \ {h})

\* C36: with the in-memory store, after any sequence of acquireSlot and
\* releaseSlot calls, releaseSlot calls without a matching acquire included,
\* globalConcurrency equals the sum of the hosts' concurrency counters.
C36_GlobalIsSumOfHosts ==
  globalConcurrency = ConcurrencyOver(DOMAIN mxStates)

\* The same while every releaseSlot follows its acquireSlot
C36_SumWithMatchedReleases ==
  [][globalConcurrency = ConcurrencyOver(DOMAIN mxStates)
     /\ ~(\E h \in Hosts : ReleaseStray(h))
     => globalConcurrency' = ConcurrencyOver(DOMAIN mxStates)']_vars

----------------------------------------------------------------------------
(* Attempts across the swap of the throttle backend.  validateSmtpSingle    *)
(* calls throttleState.acquireSlot, recordSuccess / recordFailure and       *)
(* releaseSlot through the Proxy, each on the backend of the moment of the  *)
(* call.  Attempt a is caller a of the in-memory store and process a of the *)
(* Redis store; the clock stays within the TTL of the Redis keys.           *)

HeldInstants == {1000, 3000}
\* The ends of an attempt: recordSuccess, or recordFailure without penalty
HeldKinds == {"success", "failure"}

\* The attempt has no call on either backend
AttemptIdle(a) ==
  /\ pc[a] = "idle"
  /\ rpc[a] = "idle"
  /\ bgRec[a].st = "none"
  /\ bgRel[a].st = "none"

\* throttleState.acquireSlot(h, config)
HeldAcquire(a, h) ==
  /\ AttemptIdle(a)
  /\ IF throttleStateContainer = "memory"
     THEN AcquireSlot(a, h)
     ELSE RAcquireSlot(a, h)

\* The attempt that holds a slot of the in-memory store ends while that store
\* is the backend: releaseSlot is the store's
HeldRelease(a) ==
  /\ throttleStateContainer = "memory"
  /\ ReleaseSlot(a)

\* The attempt that holds a slot of the in-memory store ends after the swap:
\* the record call and releaseSlot go to the RedisThrottleStore, which sends
\* its commands in the background; the in-memory store is not called
SwappedFinish(a, kind) ==
  /\ throttleStateContainer = "redis"
  /\ pc[a] = "holding"
  /\ chost[a] \in RHosts
  /\ kind = "success" =>
       GetState(rState[chost[a]]).successCount
         + SuccessesInFlight(chost[a]) < MaxSuccessCount
  /\ kind # "success" =>
       GetState(rState[chost[a]]).failures
         + FailuresInFlight(chost[a]) < MaxFailures
  /\ bgRec' = [bgRec EXCEPT
                 ![a] = [st |-> "get", host |-> chost[a], kind |-> kind,
                         state |-> NoState, penaltyUntil |-> 0]]
  /\ bgRel' = [bgRel EXCEPT
                 ![a] = [st |-> "decrMx", host |-> chost[a],
                         state |-> NoState]]
  /\ pc' = [pc EXCEPT ![a] = "idle"]
  /\ chost' = [chost EXCEPT ![a] = NoHost]
  /\ UNCHANGED <<now, penalties, mxStates, globalConcurrency, startTime,
                 wakeAt, storeVars, procVars, histVars, config, hsVars,
                 orchVars, rcptVars, storeHist, hotVars, single>>

\* Time passes for the sleeps of both stores
HeldAdvance ==
  /\ \E t \in HeldInstants :
        /\ t > now
        /\ now' = t
        /\ wakeAt' = [c \in Callers |-> IF wakeAt[c] <= t THEN 0 ELSE wakeAt[c]]
        /\ rwake' = [p \in Procs |-> IF rwake[p] <= t THEN 0 ELSE rwake[p]]
  /\ UNCHANGED <<penalties, mxStates, globalConcurrency, pc, chost, startTime,
                 storeVars, rpc, rhost, rstart, rnow, rsnap, rceil, bgVars,
                 histVars, config, hsVars, orchVars, rcptVars, storeHist,
                 hotVars, single>>

InitHeld ==
  /\ now = 1000
  /\ config \in Configs
  /\ config.maxGlobalConcurrency = 1
  /\ MemIdle
  /\ RedisIdle
  /\ SmtpIdle
  /\ SingleIdle
  /\ redisClient = "connecting"
  /\ readyHandlers = TRUE
  /\ throttleStateContainer = "memory"
  /\ cacheContainer = "memory"
  /\ cleanupInterval = now + CleanupPeriodMs
  /\ importer = NoImporter
  /\ memoryCache = NoEntry
  /\ fallback = NoEntry
  /\ redisKey = NoText
  /\ cacheCall = NoCall
  /\ lastSet = NoEntry
  /\ lastGet = NoGet
  /\ mxCall = NoMxCall
  /\ lastMx = NoMx

NextHeld ==
  \/ ReadyEvent
  \/ \E a \in Procs, h \in RHosts : HeldAcquire(a, h)
  \/ \E a \in Procs : AcquireResume(a)
  \/ \E a \in Procs : RResume(a)
  \/ \E a \in Procs : RGetState(a)
  \/ \E a \in Procs : REval(a)
  \/ \E a \in Procs : RSetState(a)
  \/ \E a \in Procs : HeldRelease(a)
  \/ \E a \in Procs, kind \in HeldKinds :
       SwappedFinish(a, kind)
  \/ \E a \in Procs, kind \in HeldKinds :
       RFinish(a, kind)
  \/ \E a \in Procs : RecGet(a)
  \/ \E a \in Procs : RecSet(a)
  \/ \E a \in Procs : RelDecrMx(a)
  \/ \E a \in Procs : RelDecrGlobal(a)
  \/ \E a \in Procs : RelGet(a)
  \/ \E a \in Procs : RelSet(a)
  \/ HeldAdvance

SpecHeld == InitHeld /\ [][NextHeld]_vars

\* The slots held through the Redis store, and its store at rest: no
\* releaseSlot of it is still sending its commands
RedisHeld(h) ==
  Cardinality({a \in Procs : rhost[a] = h /\ rpc[a] \in {"set", "holding"}})
RedisHeldAll == Cardinality({a \in Procs : rpc[a] \in {"set", "holding"}})
ReleasesDone == \A a \in Procs : bgRel[a].st = "none"

\* C37: when the swap falls between an attempt's acquireSlot and its
\* releaseSlot, the release is not applied to counters of the new backend
\* that were never raised for the slot: once the releases are done, every
\* concurrency counter of the Redis store equals the number of slots held
\* through it.
C37_ReleaseOnTheBackendOfTheAcquire ==
  throttleStateContainer = "redis" /\ ReleasesDone =>
    /\ GetNum(rGlobal) = RedisHeldAll
    /\ \A h \in RHosts : GetNum(rMx[h]) = RedisHeld(h)

\* After the swap no step lowers a counter of the in-memory store: the slots
\* acquired through it stay counted there
C37_OldCountersKeepTheSlot ==
  [][throttleStateContainer = "redis" =>
       /\ globalConcurrency' >= globalConcurrency
       /\ \A h \in DOMAIN mxStates :
            mxStates'[h].concurrency >= mxStates[h].concurrency]_vars

----------------------------------------------------------------------------
(* Claims on the state record of the Redis store.  acquireSlot, releaseSlot, *)
(* recordSuccess and recordFailure each read the record with GET, change     *)
(* their fields in the process and write the whole record back with SET.     *)

\* The SET of an acquireSlot or of a releaseSlot on host h is run in this step
SlotWrites(h) ==
  \E p \in Procs :
     \/ rpc[p] = "set" /\ rpc'[p] = "holding" /\ rhost[p] = h
     \/ bgRel[p].st = "set" /\ bgRel'[p].st = "none" /\ bgRel[p].host = h

\* The fields recordSuccess and recordFailure own
Recorded(st) ==
  [failures |-> st.failures, successCount |-> st.successCount,
   maxConcurrency |-> st.maxConcurrency]

\* C38: in the Redis store no update of a host's record is lost when
\* recordSuccess / recordFailure run concurrently with acquireSlot /
\* releaseSlot on the host: the write of an acquireSlot or of a releaseSlot
\* leaves the stored failure count, success streak and ceiling as the record
\* calls left them.
C38_RecordUpdatesKept ==
  [][\A h \in RHosts :
       SlotWrites(h) /\ Live(rState[h]) =>
         Recorded(rState'[h].v) = Recorded(rState[h].v)]_vars

\* Inside one attempt the release reads the record after the record call of
\* the same attempt has written it
C38_OwnRecordBeforeOwnRelease ==
  \A p \in Procs : bgRel[p].st = "set" => bgRec[p].st = "none"

----------------------------------------------------------------------------
(* Claims on the ways validateSmtp comes to 'invalid'.                       *)

\* validateSmtp has not returned at its first step and goes on to the
\* exchangers
GoesOn == [smtpStatus |-> "none", reasonCodes |-> <<>>]

\* Step 1 of validateSmtp on what validateMx returned: domainHasMx false, or
\* no record list, or an empty one (the two latter come with domainHasMx
\* false in every return of validateMx)
AfterValidateMx(m) == IF ~m.domainHasMx THEN NoMxResult ELSE GoesOn

\* C39: a transient failure of the resolver (a DNS timeout or another lookup
\* error) never makes validateSmtp return 'invalid'; only a definitive empty
\* answer of the resolver, or a 5xx to RCPT TO for the real address, does.
C39_TransientNeverInvalid ==
  lastMx.done /\ lastMx.kind = "transient" =>
    AfterValidateMx(lastMx).smtpStatus # "invalid"

\* With exchangers to contact, 'invalid' comes from a settled attempt for the
\* real address and from nowhere else
C39_InvalidFromRealAddress ==
  orch.pc = "done" /\ orch.result.smtpStatus = "invalid" =>
    \/ orch.result = NoMxResult
    \/ firstDefinitive = "invalid" /\ rcptRealSent

----------------------------------------------------------------------------
(* Claims on requireTls with a server that offers STARTTLS *)

C40_ValidateSmtpUnderRequireTls ==
  scfg.requireTls =>
    /\ step \in {0, 1}
    /\ ~rcptRealSent
    /\ orch.pc = "done" =>
         \/ orch.result.smtpStatus = "unknown"
         \/ orch.result = NoMxResult

====
